---- MODULE Spec2Model ----
(***************************************************************************)
(* FilmForge project store (project_manager.py), its pydantic state model  *)
(* (models.py) and the FastAPI lifecycle controller (fastapi_app.py).      *)
(*                                                                         *)
(* JSON values are tagged: a mapping is [dict |-> f], a sequence is        *)
(* [list |-> q], a string is [str |-> s], null is [null |-> TRUE] and an   *)
(* ISO timestamp string is [ts |-> t].  A string is a sequence of symbols: *)
(* one symbol per character, except that the markers "Error:" and          *)
(* "### Potential Twists" and a few whole words are single symbols.        *)
(* The file system is case sensitive (POSIX): fs maps a directory name to  *)
(* the files it holds, a file name to the JSON document written in it.     *)
(***************************************************************************)
EXTENDS Integers, Sequences, FiniteSets, TLC

VARIABLES fs, now, mem, last, prev

vars == <<fs, now, mem, last, prev>>

(***************************************************************************)
(* Bounds of the model.                                                    *)
(***************************************************************************)
MaxNameLen == 3
MaxOps == 3
MaxSaves == 52
MaxLoads == 1
MaxEdits == 1
MaxCreates == 2
MaxCreateNameLen == 2
MaxListOps == 4
MaxClientOps == 4

(***************************************************************************)
(* JSON values.                                                            *)
(***************************************************************************)
D(f) == [dict |-> f]
L(q) == [list |-> q]
S(s) == [str |-> s]
TS(t) == [ts |-> t]
Null == [null |-> TRUE]

IsDict(v) == "dict" \in DOMAIN v
IsList(v) == "list" \in DOMAIN v
IsStr(v) == "str" \in DOMAIN v
IsNull(v) == "null" \in DOMAIN v

EmptyMap == <<>>

\* Python truthiness of a JSON value ("not x" is ~Truthy(x)).
Truthy(v) ==
    IF IsNull(v) THEN FALSE
    ELSE IF IsStr(v) THEN v.str # <<>>
    ELSE IF IsDict(v) THEN DOMAIN v.dict # {}
    ELSE IF IsList(v) THEN v.list # <<>>
    ELSE TRUE

\* q[-n:]
LastN(n, q) == IF Len(q) <= n THEN q ELSE SubSeq(q, Len(q) - n + 1, Len(q))

\* d with key k bound to v (d[k] = v on a Python dict).
Put(d, k, v) == [x \in DOMAIN d \cup {k} |-> IF x = k THEN v ELSE d[x]]

\* dict.get(k, dflt)
Get(d, k, dflt) == IF k \in DOMAIN d THEN d[k] ELSE dflt

(***************************************************************************)
(* Strings and name derivation.                                            *)
(***************************************************************************)
Whitespace == {" ", "\t", "\n"}

RECURSIVE lstrip(_)
lstrip(s) ==
    IF s = <<>> THEN s
    ELSE IF Head(s) \in Whitespace THEN lstrip(Tail(s)) ELSE s

RECURSIVE rstrip(_)
rstrip(s) ==
    IF s = <<>> THEN s
    ELSE IF s[Len(s)] \in Whitespace THEN rstrip(SubSeq(s, 1, Len(s) - 1)) ELSE s

strip(s) == rstrip(lstrip(s))

\* s.replace(a, b) for one-character a and b
replace(s, a, b) == [i \in 1..Len(s) |-> IF s[i] = a THEN b ELSE s[i]]

lowerChar(c) == IF c = "A" THEN "a" ELSE IF c = "B" THEN "b" ELSE c

lower(s) == [i \in 1..Len(s) |-> lowerChar(s[i])]

clean_name_swapped(n) == lower(replace(strip(n), "_", " "))

\* project_name_display.strip().replace(" ", "_").lower()
clean_name(n) == lower(replace(strip(n), " ", "_"))

validator_keeps_given(v, project_name) == v

\* ProjectState.generate_cleaned_name: v is the value given for cleaned_name
generate_cleaned_name(v, project_name) ==
    IF IsStr(project_name) /\ project_name.str # <<>>
    THEN S(clean_name(project_name.str))
    ELSE S(<<"untitled">>)

(***************************************************************************)
(* config.DEFAULT_PROJECT_STATE                                            *)
(***************************************************************************)
LogCap == 50

Msg(kind, name, t) == [msg |-> kind, name |-> name, at |-> t]

DEFAULT_CONCEPT ==
    [seed_idea |-> S(<<>>), generated_concepts_md |-> S(<<>>),
     chosen_logline |-> S(<<>>), chosen_framework |-> S(<<"Three-Act Structure">>),
     chosen_theme |-> S(<<>>), chosen_conflict |-> S(<<>>),
     synopsis_md |-> S(<<>>), final_synopsis |-> S(<<>>)]

DEFAULT_SCRIPT ==
    [outline_md |-> S(<<>>), full_script_content |-> S(<<>>), analysis_md |-> S(<<>>)]

DEFAULT_PRE_PRODUCTION ==
    [moodboard_ideas_md |-> S(<<>>), storyboard_ideas_md |-> S(<<>>),
     moodboard_images |-> L(<<>>), storyboard_images |-> L(<<>>)]

DEFAULT_PROJECT_STATE ==
    [project_name |-> S(<<"Untitled">>),
     cleaned_name |-> S(<<"untitled">>),
     current_phase |-> S(<<"Concept">>),
     concept |-> D(DEFAULT_CONCEPT),
     characters |-> D(EmptyMap),
     script |-> D(DEFAULT_SCRIPT),
     pre_production |-> D(DEFAULT_PRE_PRODUCTION),
     last_saved |-> Null,
     log |-> L(<<Msg("init", <<>>, 0)>>)]

(***************************************************************************)
(* ProjectManager: paths and the file system.                              *)
(***************************************************************************)
\* _get_state_file_path: directory named by the display name, file by the clean name
StatePath(name) == [dir |-> name, file |-> clean_name(name)]

PathExists(fsys, p) == p.dir \in DOMAIN fsys /\ p.file \in DOMAIN fsys[p.dir]

ReadFile(fsys, p) == fsys[p.dir][p.file]

\* os.makedirs(dir, exist_ok=True)
MakeDirs(fsys, dir) == IF dir \in DOMAIN fsys THEN fsys ELSE Put(fsys, dir, EmptyMap)

\* open(path, 'w') + json.dump: the file content is replaced
WriteFile(fsys, p, doc) == Put(MakeDirs(fsys, p.dir), p.dir, Put(MakeDirs(fsys, p.dir)[p.dir], p.file, doc))

(***************************************************************************)
(* ProjectManager.load_project                                             *)
(***************************************************************************)
merge_dict_shallow(source, destination) ==
    [key \in DOMAIN source \cup DOMAIN destination |->
        IF key \notin DOMAIN source THEN destination[key]
        ELSE IF key \notin DOMAIN destination THEN source[key]
        ELSE IF IsDict(source[key]) /\ ~IsDict(destination[key]) THEN source[key]
        ELSE IF IsList(source[key]) /\ ~IsList(destination[key]) THEN L(<<>>)
        ELSE destination[key]]

RECURSIVE merge_dict_overwrites(_, _)
merge_dict_overwrites(source, destination) ==
    [key \in DOMAIN source \cup DOMAIN destination |->
        IF key \notin DOMAIN source THEN destination[key]
        ELSE IF IsDict(source[key])
        THEN LET node == IF key \in DOMAIN destination /\ IsDict(destination[key])
                         THEN destination[key].dict ELSE EmptyMap
             IN  D(merge_dict_overwrites(source[key].dict, node))
        ELSE source[key]]

RECURSIVE merge_dict(_, _)
merge_dict(source, destination) ==
    [key \in DOMAIN source \cup DOMAIN destination |->
        IF key \notin DOMAIN source THEN destination[key]
        ELSE IF IsDict(source[key])
        THEN LET node == IF key \in DOMAIN destination /\ IsDict(destination[key])
                         THEN destination[key].dict ELSE EmptyMap
             IN  D(merge_dict(source[key].dict, node))
        ELSE IF key \notin DOMAIN destination THEN source[key]
        ELSE IF IsList(source[key]) /\ ~IsList(destination[key]) THEN L(<<>>)
        ELSE destination[key]]

load_project_keeps_names(fsys, name) ==
    IF name = <<>> THEN [status |-> "ValueError", ret |-> Null]
    ELSE IF ~PathExists(fsys, StatePath(name)) THEN [status |-> "NotFound", ret |-> Null]
    ELSE LET stored == ReadFile(fsys, StatePath(name)) IN
         IF ~IsDict(stored) THEN [status |-> "IOError", ret |-> Null]
         ELSE LET merged == merge_dict(DEFAULT_PROJECT_STATE, stored.dict)
              IN  IF ~IsList(merged["log"]) THEN [status |-> "IOError", ret |-> Null]
                  ELSE [status |-> "ok",
                        ret |-> D(Put(merged, "log",
                                      L(Append(LastN(LogCap, merged["log"].list),
                                               Msg("loaded", name, 0)))))]

load_project_silent(fsys, name) ==
    IF name = <<>> THEN [status |-> "ValueError", ret |-> Null]
    ELSE IF ~PathExists(fsys, StatePath(name)) THEN [status |-> "NotFound", ret |-> Null]
    ELSE LET stored == ReadFile(fsys, StatePath(name))
             named == Put(Put(stored.dict, "project_name", S(name)),
                          "cleaned_name", S(clean_name(name)))
             merged == merge_dict(DEFAULT_PROJECT_STATE, named)
         IN  [status |-> "ok", ret |-> D(Put(merged, "log", L(LastN(LogCap, merged["log"].list))))]

load_project(fsys, name) ==
    IF name = <<>> THEN [status |-> "ValueError", ret |-> Null]
    ELSE IF ~PathExists(fsys, StatePath(name)) THEN [status |-> "NotFound", ret |-> Null]
    ELSE LET stored == ReadFile(fsys, StatePath(name)) IN
         IF ~IsDict(stored) THEN [status |-> "IOError", ret |-> Null]
         ELSE LET named == Put(Put(stored.dict, "project_name", S(name)),
                               "cleaned_name", S(clean_name(name)))
                  merged == merge_dict(DEFAULT_PROJECT_STATE, named)
              IN  IF ~IsList(merged["log"]) THEN [status |-> "IOError", ret |-> Null]
                  ELSE [status |-> "ok",
                        ret |-> D(Put(merged, "log",
                                      L(Append(LastN(LogCap, merged["log"].list),
                                               Msg("loaded", name, 0)))))]

(***************************************************************************)
(* ProjectManager.save_project                                             *)
(***************************************************************************)
save_project_no_log_entry(fsys, t, state) ==
    IF ~IsDict(state) \/ ~Truthy(state) \/ IsNull(Get(state.dict, "project_name", Null))
    THEN [status |-> "ValueError", fs |-> fsys, ret |-> Null, now |-> t]
    ELSE IF ~Truthy(state.dict["project_name"])
    THEN [status |-> "ValueError", fs |-> fsys, ret |-> Null, now |-> t]
    ELSE LET name == state.dict["project_name"].str
             doc == D(Put(state.dict, "last_saved", TS(t)))
         IN  [status |-> "ok", fs |-> WriteFile(fsys, StatePath(name), doc),
              ret |-> doc, now |-> t + 1]

save_project(fsys, t, state) ==
    IF ~IsDict(state) \/ ~Truthy(state) \/ IsNull(Get(state.dict, "project_name", Null))
    THEN [status |-> "ValueError", fs |-> fsys, ret |-> Null, now |-> t]
    ELSE IF ~Truthy(state.dict["project_name"])
    THEN [status |-> "ValueError", fs |-> fsys, ret |-> Null, now |-> t]
    ELSE LET name == state.dict["project_name"].str
             made == MakeDirs(fsys, name)
             kept == Get(state.dict, "log", L(<<>>))
         IN  IF ~IsList(kept)
             THEN [status |-> "IOError", fs |-> made, ret |-> Null, now |-> t + 1]
             ELSE LET doc == D(Put(Put(state.dict, "last_saved", TS(t)), "log",
                                   L(Append(LastN(LogCap, kept.list), Msg("saved", <<>>, t)))))
                  IN  [status |-> "ok", fs |-> WriteFile(fsys, StatePath(name), doc),
                       ret |-> doc, now |-> t + 1]

create_project_unstripped(fsys, t, new_name) ==
    IF new_name = <<>>
    THEN [status |-> "ValueError", fs |-> fsys, ret |-> Null, now |-> t]
    ELSE IF PathExists(fsys, StatePath(new_name))
    THEN [status |-> "FileExistsError", fs |-> fsys, ret |-> Null, now |-> t]
    ELSE LET s1 == Put(DEFAULT_PROJECT_STATE, "project_name", S(new_name))
             s2 == Put(s1, "cleaned_name", S(lower(replace(new_name, " ", "_"))))
             s3 == Put(s2, "log", L(<<Msg("created", new_name, 0)>>))
         IN  save_project(fsys, t, D(s3))

create_project_overwrites(fsys, t, new_name) ==
    IF new_name = <<>> \/ strip(new_name) = <<>>
    THEN [status |-> "ValueError", fs |-> fsys, ret |-> Null, now |-> t]
    ELSE LET project_name_orig == strip(new_name)
             s1 == Put(DEFAULT_PROJECT_STATE, "project_name", S(project_name_orig))
             s2 == Put(s1, "cleaned_name", S(lower(replace(project_name_orig, " ", "_"))))
             s3 == Put(s2, "log", L(<<Msg("created", project_name_orig, 0)>>))
         IN  save_project(fsys, t, D(s3))

(***************************************************************************)
(* ProjectManager.create_project                                           *)
(***************************************************************************)
create_project(fsys, t, new_name) ==
    IF new_name = <<>> \/ strip(new_name) = <<>>
    THEN [status |-> "ValueError", fs |-> fsys, ret |-> Null, now |-> t]
    ELSE LET project_name_orig == strip(new_name) IN
         IF PathExists(fsys, StatePath(project_name_orig))
         THEN [status |-> "FileExistsError", fs |-> fsys, ret |-> Null, now |-> t]
         ELSE LET s1 == Put(DEFAULT_PROJECT_STATE, "project_name", S(project_name_orig))
                  s2 == Put(s1, "cleaned_name", S(lower(replace(project_name_orig, " ", "_"))))
                  s3 == Put(s2, "log", L(<<Msg("created", project_name_orig, 0)>>))
                  s4 == Put(s3, "last_saved", Null)
              IN  save_project(fsys, t, D(s4))

(***************************************************************************)
(* ProjectManager.delete_project                                           *)
(***************************************************************************)
delete_project(fsys, name) ==
    IF name = <<>> THEN [status |-> "ValueError", fs |-> fsys, ret |-> FALSE]
    ELSE IF name \notin DOMAIN fsys
    THEN [status |-> "ok", fs |-> fsys, ret |-> FALSE]
    ELSE [status |-> "ok", fs |-> [d \in DOMAIN fsys \ {name} |-> fsys[d]], ret |-> TRUE]

(***************************************************************************)
(* ProjectManager.get_project_list                                         *)
(***************************************************************************)
\* ord(c) of the characters that occur in names
ord(c) ==
    CASE c = "\t" -> 9 [] c = " " -> 32 [] c = "A" -> 65 [] c = "B" -> 66
      [] c = "_" -> 95 [] c = "a" -> 97 [] c = "b" -> 98

\* a < b on Python strings: by code point, a proper prefix first
RECURSIVE StrLess(_, _)
StrLess(a, b) ==
    IF b = <<>> THEN FALSE
    ELSE IF a = <<>> THEN TRUE
    ELSE IF Head(a) # Head(b) THEN ord(Head(a)) < ord(Head(b))
    ELSE StrLess(Tail(a), Tail(b))

\* sorted(projects)
RECURSIVE sorted(_)
sorted(names) ==
    IF names = {} THEN <<>>
    ELSE LET least == CHOOSE x \in names : \A y \in names \ {x} : StrLess(x, y)
         IN  <<least>> \o sorted(names \ {least})

get_project_list_all_dirs(root, fsys) ==
    IF ~root THEN <<>> ELSE sorted(DOMAIN fsys)

\* root: os.path.exists(self.base_dir); os.listdir gives the directories in any order
get_project_list(root, fsys) ==
    IF ~root THEN <<>>
    ELSE sorted({item \in DOMAIN fsys : clean_name(item) \in DOMAIN fsys[item]})

(***************************************************************************)
(* models.py: the pydantic models.  A model built from a mapping keeps the *)
(* declared fields only, fills the absent ones with the declared defaults  *)
(* and runs the validators; model_dump gives the mapping back.             *)
(***************************************************************************)
Model(defaults, given) ==
    [f \in DOMAIN defaults |-> IF f \in DOMAIN given THEN given[f] ELSE defaults[f]]

ConceptStateDefaults ==
    [seed_idea |-> S(<<>>), generated_concepts_md |-> S(<<>>),
     chosen_logline |-> S(<<>>), chosen_framework |-> S(<<"Three-Act Structure">>),
     chosen_theme |-> S(<<>>), chosen_conflict |-> S(<<>>),
     synopsis_md |-> S(<<>>), final_synopsis |-> S(<<>>)]

ConceptState(v) == D(Model(ConceptStateDefaults, v.dict))

CharacterProfileDefaults == [backstory |-> S(<<>>), motivation |-> S(<<>>), flaw |-> S(<<>>)]

CharacterProfile(v) == D(Model(CharacterProfileDefaults, v.dict))

CharacterDataDefaults ==
    [role |-> S(<<>>), profile |-> D(CharacterProfileDefaults),
     arc_description |-> S(<<>>), relationship_suggestions |-> S(<<>>)]

CharacterData(v) ==
    LET m == Model(CharacterDataDefaults, v.dict)
    IN  D(Put(m, "profile", CharacterProfile(m["profile"])))

ScriptStateDefaults ==
    [outline_md |-> S(<<>>), full_script_content |-> S(<<>>), analysis_md |-> S(<<>>)]

ScriptState(v) == D(Model(ScriptStateDefaults, v.dict))

PreProductionStateDefaults ==
    [moodboard_ideas_md |-> S(<<>>), storyboard_ideas_md |-> S(<<>>),
     moodboard_images |-> L(<<>>), storyboard_images |-> L(<<>>)]

PreProductionState(v) == D(Model(PreProductionStateDefaults, v.dict))

ProjectState_given_only(given) ==
    D(Put(given, "cleaned_name",
          generate_cleaned_name(Get(given, "cleaned_name", Null), given["project_name"])))

\* ProjectState(**given): given is the mapping of keyword arguments
ProjectState(given) ==
    LET chars == Get(given, "characters", D(EmptyMap)).dict IN
    D([project_name |-> given["project_name"],
       cleaned_name |-> generate_cleaned_name(Get(given, "cleaned_name", Null), given["project_name"]),
       current_phase |-> Get(given, "current_phase", S(<<"Concept">>)),
       concept |-> ConceptState(Get(given, "concept", D(ConceptStateDefaults))),
       characters |-> D([c \in DOMAIN chars |-> CharacterData(chars[c])]),
       script |-> ScriptState(Get(given, "script", D(ScriptStateDefaults))),
       pre_production |-> PreProductionState(Get(given, "pre_production", D(PreProductionStateDefaults))),
       last_saved |-> Get(given, "last_saved", Null),
       log |-> Get(given, "log", L(<<>>))])

(***************************************************************************)
(* fastapi_app.py: helpers shared by the endpoints.                        *)
(***************************************************************************)
\* state.<k1>.<k2>
Field(state, k1, k2) == state.dict[k1].dict[k2]

\* state.<k1>.<k2> = v
SetField(state, k1, k2, v) == D(Put(state.dict, k1, D(Put(state.dict[k1].dict, k2, v))))

\* "sym" in s
Contains(s, sym) == \E i \in 1..Len(s) : s[i] = sym

Outcome(st, code, fsys, t, ret, calls, imgs) ==
    [status |-> st, http |-> code, fs |-> fsys, now |-> t, ret |-> ret,
     textCalls |-> calls, imgCalls |-> imgs, asked |-> Null]

\* the outcome of an endpoint that passed roles to the text collaborator
Asked(o, roles) == [o EXCEPT !.asked = [roles |-> roles]]

\* the outcome of an endpoint that passed a script excerpt to the text collaborator
AskedAbout(o, excerpt) == [o EXCEPT !.asked = [excerpt |-> excerpt]]

load_project_state_safe(fsys, name) ==
    LET r == load_project(fsys, name) IN
    IF r.status = "ok" THEN [status |-> "ok", http |-> 200, state |-> ProjectState(r.ret.dict)]
    ELSE IF r.status = "NotFound" THEN [status |-> "NotFound", http |-> 404, state |-> Null]
    ELSE [status |-> "ServerError", http |-> 500, state |-> Null]

save_project_state_safe(fsys, t, state) ==
    LET r == save_project(fsys, t, state) IN
    IF r.status = "ok"
    THEN [status |-> "ok", http |-> 200, fs |-> r.fs, now |-> r.now, state |-> ProjectState(r.ret.dict)]
    ELSE [status |-> "ServerError", http |-> 500, fs |-> r.fs, now |-> r.now, state |-> Null]

\* the tail shared by the mutating endpoints: save the state, answer with ret
SaveAndReturn(fsys, t, state, ret, calls, imgs) ==
    LET sv == save_project_state_safe(fsys, t, state) IN
    IF sv.status = "ok" THEN Outcome("ok", 200, sv.fs, sv.now, ret, calls, imgs)
    ELSE Outcome("ServerError", 500, sv.fs, sv.now, Null, calls, imgs)

(***************************************************************************)
(* The text collaborator.  groq is what call_groq returns for the call, if *)
(* the agent makes it; an agent answers [text, calls].                     *)
(***************************************************************************)
Answer(text, calls) == [text |-> text, calls |-> calls]

\* ConceptAgent.generate_initial_concepts
agent_generate_initial_concepts(seed_idea, groq) ==
    IF ~Truthy(seed_idea) THEN Answer(S(<<"Error:", "seed">>), 0) ELSE Answer(groq, 1)

\* ConceptAgent.generate_synopsis: the four keys are always present in concept_details
agent_generate_synopsis(concept_details, groq) == Answer(groq, 1)

\* CharacterCrafterAgent.map_character_arc
agent_map_character_arc(profile, framework, groq) ==
    IF ~Truthy(profile.dict["motivation"]) \/ ~Truthy(profile.dict["flaw"])
    THEN Answer(S(<<"Error:", "arc">>), 0) ELSE Answer(groq, 1)

\* CharacterCrafterAgent.suggest_relationships
agent_suggest_relationships(primary, other_char_roles, groq) ==
    IF other_char_roles = {} THEN Answer(S(<<"No other characters">>), 0) ELSE Answer(groq, 1)

\* what an agent yields when its body raises instead of answering
Raised(exception) == [raised |-> exception]

\* ScriptSmithAgent.generate_outline: the argument list of its call_groq call reads
\* config.DEFAULT_MODEL, and the module imports no config, so evaluating it raises
\* NameError before call_groq is entered
agent_generate_outline(synopsis, framework, groq) ==
    IF ~Truthy(synopsis) THEN Answer(S(<<"Error:", "synopsis">>), 0) ELSE Raised("NameError")

MinExcerptLen == 50
MinSceneLen == 50

\* ScriptSmithAgent.analyze_script_issues
agent_analyze_script_issues(excerpt, groq) ==
    IF ~Truthy(excerpt) \/ Len(excerpt.str) < MinExcerptLen
    THEN Answer(S(<<"Error:", "excerpt">>), 0) ELSE Answer(groq, 1)

\* ScriptSmithAgent.generate_moodboard_ideas
agent_generate_moodboard_ideas(theme, genre, synopsis, groq) ==
    IF ~Truthy(theme) /\ ~Truthy(genre) /\ ~Truthy(synopsis)
    THEN Answer(S(<<"Error:", "moodboard">>), 0) ELSE Answer(groq, 1)

\* ScriptSmithAgent.generate_storyboard_shot_ideas
agent_generate_storyboard_shot_ideas(scene_text, groq) ==
    IF ~Truthy(scene_text) \/ Len(scene_text.str) < MinSceneLen
    THEN Answer(S(<<"Error:", "scene">>), 0) ELSE Answer(groq, 1)

(***************************************************************************)
(* The image collaborator.  generate_image_from_prompt answers a mapping   *)
(* {"error": ...} or a non-empty sequence of parts {type, content}.        *)
(***************************************************************************)
Part(type) == D([type |-> S(<<type>>), content |-> S(<<"b64">>)])

ImageError == D([error |-> S(<<"no content">>)])

\* "error" in image_parts: key membership on a mapping, element membership on a sequence
ErrorIn(image_parts) ==
    IF IsDict(image_parts) THEN "error" \in DOMAIN image_parts.dict
    ELSE \E i \in 1..Len(image_parts.list) : image_parts.list[i] = S(<<"error">>)

(***************************************************************************)
(* fastapi_app.py: the endpoints.  Each answers an Outcome.                *)
(***************************************************************************)
NotLoaded(ld, fsys, t) == Outcome(ld.status, ld.http, fsys, t, Null, 0, 0)

\* GET /projects/{project_name}
ep_load_project(fsys, t, name) ==
    LET ld == load_project_state_safe(fsys, name) IN
    IF ld.status # "ok" THEN NotLoaded(ld, fsys, t)
    ELSE Outcome("ok", 200, fsys, t, ld.state, 0, 0)

\* POST /projects
ep_create_project(fsys, t, name) ==
    LET r == create_project(fsys, t, name) IN
    IF r.status = "ok" THEN Outcome("ok", 201, r.fs, r.now, ProjectState(r.ret.dict), 0, 0)
    ELSE IF r.status = "FileExistsError" THEN Outcome("AlreadyExists", 409, r.fs, r.now, Null, 0, 0)
    ELSE IF r.status = "ValueError" THEN Outcome("InvalidName", 400, r.fs, r.now, Null, 0, 0)
    ELSE Outcome("ServerError", 500, r.fs, r.now, Null, 0, 0)

\* a variant whose timestamp call works: the body replaces the stored document
ep_save_project_replaces_existing(fsys, t, name, body) ==
    IF body.dict["project_name"] # S(name)
    THEN Outcome("PreconditionFailed", 400, fsys, t, Null, 0, 0)
    ELSE LET sv == save_project_state_safe(fsys, t, body) IN
         IF sv.status = "ok" THEN Outcome("ok", 200, sv.fs, sv.now, sv.state, 0, 0)
         ELSE Outcome("ServerError", 500, sv.fs, sv.now, Null, 0, 0)

\* PUT /projects/{project_name}: datetime is the module, so datetime.now raises
\* AttributeError when the project could be loaded
ep_save_project(fsys, t, name, body) ==
    IF body.dict["project_name"] # S(name)
    THEN Outcome("PreconditionFailed", 400, fsys, t, Null, 0, 0)
    ELSE LET ld == load_project_state_safe(fsys, name) IN
         IF ld.status = "ok" THEN Outcome("ServerError", 500, fsys, t, Null, 0, 0)
         ELSE IF ld.http # 404 THEN NotLoaded(ld, fsys, t)
         ELSE LET sv == save_project_state_safe(fsys, t, body) IN
              IF sv.status = "ok" THEN Outcome("ok", 200, sv.fs, sv.now, sv.state, 0, 0)
              ELSE Outcome("ServerError", 500, sv.fs, sv.now, Null, 0, 0)

\* POST .../concept/generate-concepts
ep_generate_initial_concepts_saves_first(fsys, t, name, seed_idea, groq) ==
    LET ld == load_project_state_safe(fsys, name) IN
    IF ld.status # "ok" THEN NotLoaded(ld, fsys, t)
    ELSE LET a == agent_generate_initial_concepts(seed_idea, groq)
             st == SetField(SetField(ld.state, "concept", "seed_idea", seed_idea),
                            "concept", "generated_concepts_md", a.text)
             sv == SaveAndReturn(fsys, t, st, a.text, a.calls, 0)
         IN  IF Contains(a.text.str, "Error:")
             THEN Outcome("GenerationFailed", 500, sv.fs, sv.now, a.text, a.calls, 0)
             ELSE sv

ep_generate_initial_concepts(fsys, t, name, seed_idea, groq) ==
    LET ld == load_project_state_safe(fsys, name) IN
    IF ld.status # "ok" THEN NotLoaded(ld, fsys, t)
    ELSE LET a == agent_generate_initial_concepts(seed_idea, groq) IN
         IF Contains(a.text.str, "Error:")
         THEN Outcome("GenerationFailed", 500, fsys, t, a.text, a.calls, 0)
         ELSE SaveAndReturn(fsys, t,
                  SetField(SetField(ld.state, "concept", "seed_idea", seed_idea),
                           "concept", "generated_concepts_md", a.text),
                  a.text, a.calls, 0)

TwistsMarker == "### Potential Twists"

BeforeMarker_untrimmed(s) ==
    LET first == CHOOSE i \in 1..Len(s) : s[i] = TwistsMarker /\ \A j \in 1..(i - 1) : s[j] # TwistsMarker
    IN  SubSeq(s, 1, first - 1)

\* result_md.split(marker)[0].strip()
BeforeMarker(s) ==
    LET first == CHOOSE i \in 1..Len(s) : s[i] = TwistsMarker /\ \A j \in 1..(i - 1) : s[j] # TwistsMarker
    IN  strip(SubSeq(s, 1, first - 1))

ep_generate_synopsis_overwrites_all(fsys, t, name, request, groq) ==
    LET ld == load_project_state_safe(fsys, name) IN
    IF ld.status # "ok" THEN NotLoaded(ld, fsys, t)
    ELSE LET chosen(k) == Field(ld.state, "concept", k)
             detail(k, ck) == IF IsNull(request[k]) THEN chosen(ck) ELSE request[k]
             sent(k) == IF IsNull(request[k]) THEN S(<<>>) ELSE request[k]
         IN  IF ~Truthy(detail("logline", "chosen_logline")) /\ ~Truthy(detail("theme", "chosen_theme"))
             THEN Outcome("PreconditionFailed", 400, fsys, t, Null, 0, 0)
             ELSE LET a == agent_generate_synopsis(request, groq) IN
                  IF Contains(a.text.str, "Error:")
                  THEN Outcome("GenerationFailed", 500, fsys, t, a.text, a.calls, 0)
                  ELSE LET final == IF Contains(a.text.str, TwistsMarker)
                                    THEN S(BeforeMarker(a.text.str)) ELSE a.text
                           c == ld.state.dict["concept"].dict
                           c2 == [c EXCEPT !["chosen_logline"] = sent("logline"),
                                           !["chosen_framework"] = sent("framework"),
                                           !["chosen_theme"] = sent("theme"),
                                           !["chosen_conflict"] = sent("conflict"),
                                           !["synopsis_md"] = a.text,
                                           !["final_synopsis"] = final]
                       IN  SaveAndReturn(fsys, t, D(Put(ld.state.dict, "concept", D(c2))),
                                         a.text, a.calls, 0)

\* POST .../concept/generate-synopsis; request holds logline, framework, theme, conflict
ep_generate_synopsis(fsys, t, name, request, groq) ==
    LET ld == load_project_state_safe(fsys, name) IN
    IF ld.status # "ok" THEN NotLoaded(ld, fsys, t)
    ELSE LET chosen(k) == Field(ld.state, "concept", k)
             detail(k, ck) == IF IsNull(request[k]) THEN chosen(ck) ELSE request[k]
             kept(k, ck) == IF Truthy(detail(k, ck)) THEN detail(k, ck) ELSE chosen(ck)
         IN  IF ~Truthy(detail("logline", "chosen_logline")) /\ ~Truthy(detail("theme", "chosen_theme"))
             THEN Outcome("PreconditionFailed", 400, fsys, t, Null, 0, 0)
             ELSE LET a == agent_generate_synopsis(request, groq) IN
                  IF Contains(a.text.str, "Error:")
                  THEN Outcome("GenerationFailed", 500, fsys, t, a.text, a.calls, 0)
                  ELSE LET final == IF Contains(a.text.str, TwistsMarker)
                                    THEN S(BeforeMarker(a.text.str)) ELSE a.text
                           c == ld.state.dict["concept"].dict
                           c2 == [c EXCEPT !["chosen_logline"] = kept("logline", "chosen_logline"),
                                           !["chosen_framework"] = kept("framework", "chosen_framework"),
                                           !["chosen_theme"] = kept("theme", "chosen_theme"),
                                           !["chosen_conflict"] = kept("conflict", "chosen_conflict"),
                                           !["synopsis_md"] = a.text,
                                           !["final_synopsis"] = final]
                       IN  SaveAndReturn(fsys, t, D(Put(ld.state.dict, "concept", D(c2))),
                                         a.text, a.calls, 0)

\* PUT .../characters/{char_name}; update holds role and profile
ep_save_character_profile(fsys, t, name, char_name, update) ==
    LET ld == load_project_state_safe(fsys, name) IN
    IF ld.status # "ok" THEN NotLoaded(ld, fsys, t)
    ELSE LET chars == ld.state.dict["characters"].dict
             base == IF char_name \notin DOMAIN chars
                     THEN CharacterData(D([role |-> update.role]))
                     ELSE D(Put(chars[char_name].dict, "role", update.role))
             rec == D(Put(base.dict, "profile", update.profile))
         IN  SaveAndReturn(fsys, t,
                 D(Put(ld.state.dict, "characters", D(Put(chars, char_name, rec)))),
                 rec, 0, 0)

\* POST .../characters/{char_name}/generate-arc
ep_generate_character_arc_no_precondition(fsys, t, name, char_name, groq) ==
    LET ld == load_project_state_safe(fsys, name) IN
    IF ld.status # "ok" THEN NotLoaded(ld, fsys, t)
    ELSE LET chars == ld.state.dict["characters"].dict IN
         IF char_name \notin DOMAIN chars
         THEN Outcome("NotFound", 404, fsys, t, Null, 0, 0)
         ELSE LET a == Answer(groq, 1) IN
              IF Contains(a.text.str, "Error:")
              THEN Outcome("GenerationFailed", 500, fsys, t, a.text, a.calls, 0)
              ELSE SaveAndReturn(fsys, t,
                       D(Put(ld.state.dict, "characters",
                             D(Put(chars, char_name,
                                   D(Put(chars[char_name].dict, "arc_description", a.text)))))),
                       a.text, a.calls, 0)

ep_generate_character_arc_resets_relationships(fsys, t, name, char_name, groq) ==
    LET ld == load_project_state_safe(fsys, name) IN
    IF ld.status # "ok" THEN NotLoaded(ld, fsys, t)
    ELSE LET chars == ld.state.dict["characters"].dict IN
         IF char_name \notin DOMAIN chars
         THEN Outcome("NotFound", 404, fsys, t, Null, 0, 0)
         ELSE LET profile == chars[char_name].dict["profile"] IN
              IF ~Truthy(profile.dict["motivation"]) \/ ~Truthy(profile.dict["flaw"])
              THEN Outcome("PreconditionFailed", 400, fsys, t, Null, 0, 0)
              ELSE LET a == agent_map_character_arc(profile,
                                Field(ld.state, "concept", "chosen_framework"), groq) IN
                   IF Contains(a.text.str, "Error:")
                   THEN Outcome("GenerationFailed", 500, fsys, t, a.text, a.calls, 0)
                   ELSE SaveAndReturn(fsys, t,
                            D(Put(ld.state.dict, "characters",
                                  D(Put(chars, char_name,
                                        CharacterData(D([role |-> chars[char_name].dict["role"],
                                                         profile |-> profile,
                                                         arc_description |-> a.text])))))),
                            a.text, a.calls, 0)

ep_generate_character_arc(fsys, t, name, char_name, groq) ==
    LET ld == load_project_state_safe(fsys, name) IN
    IF ld.status # "ok" THEN NotLoaded(ld, fsys, t)
    ELSE LET chars == ld.state.dict["characters"].dict IN
         IF char_name \notin DOMAIN chars
         THEN Outcome("NotFound", 404, fsys, t, Null, 0, 0)
         ELSE LET profile == chars[char_name].dict["profile"] IN
              IF ~Truthy(profile.dict["motivation"]) \/ ~Truthy(profile.dict["flaw"])
              THEN Outcome("PreconditionFailed", 400, fsys, t, Null, 0, 0)
              ELSE LET a == agent_map_character_arc(profile,
                                Field(ld.state, "concept", "chosen_framework"), groq) IN
                   IF Contains(a.text.str, "Error:")
                   THEN Outcome("GenerationFailed", 500, fsys, t, a.text, a.calls, 0)
                   ELSE SaveAndReturn(fsys, t,
                            D(Put(ld.state.dict, "characters",
                                  D(Put(chars, char_name,
                                        D(Put(chars[char_name].dict, "arc_description", a.text)))))),
                            a.text, a.calls, 0)

ep_suggest_relationships_counts_self(fsys, t, name, char_name, groq) ==
    LET ld == load_project_state_safe(fsys, name) IN
    IF ld.status # "ok" THEN NotLoaded(ld, fsys, t)
    ELSE LET chars == ld.state.dict["characters"].dict IN
         IF char_name \notin DOMAIN chars
         THEN Outcome("NotFound", 404, fsys, t, Null, 0, 0)
         ELSE LET other_char_roles ==
                      {chars[c].dict["role"] : c \in {x \in DOMAIN chars : Truthy(chars[x].dict["role"])}}
              IN  IF other_char_roles = {}
                  THEN Outcome("ok", 200, fsys, t, S(<<"No other characters">>), 0, 0)
                  ELSE LET a == agent_suggest_relationships(chars[char_name], other_char_roles, groq) IN
                       IF Contains(a.text.str, "Error:")
                       THEN Asked(Outcome("GenerationFailed", 500, fsys, t, a.text, a.calls, 0),
                                  other_char_roles)
                       ELSE Asked(SaveAndReturn(fsys, t,
                                      D(Put(ld.state.dict, "characters",
                                            D(Put(chars, char_name,
                                                  D(Put(chars[char_name].dict,
                                                        "relationship_suggestions", a.text)))))),
                                      a.text, a.calls, 0),
                                  other_char_roles)

\* POST .../characters/{char_name}/suggest-relationships
ep_suggest_relationships(fsys, t, name, char_name, groq) ==
    LET ld == load_project_state_safe(fsys, name) IN
    IF ld.status # "ok" THEN NotLoaded(ld, fsys, t)
    ELSE LET chars == ld.state.dict["characters"].dict IN
         IF char_name \notin DOMAIN chars
         THEN Outcome("NotFound", 404, fsys, t, Null, 0, 0)
         ELSE LET other_char_roles ==
                      {chars[c].dict["role"] : c \in {x \in DOMAIN chars \ {char_name} :
                                                          Truthy(chars[x].dict["role"])}}
              IN  IF other_char_roles = {}
                  THEN Outcome("ok", 200, fsys, t, S(<<"No other characters">>), 0, 0)
                  ELSE LET a == agent_suggest_relationships(chars[char_name], other_char_roles, groq) IN
                       IF Contains(a.text.str, "Error:")
                       THEN Asked(Outcome("GenerationFailed", 500, fsys, t, a.text, a.calls, 0),
                                  other_char_roles)
                       ELSE Asked(SaveAndReturn(fsys, t,
                                      D(Put(ld.state.dict, "characters",
                                            D(Put(chars, char_name,
                                                  D(Put(chars[char_name].dict,
                                                        "relationship_suggestions", a.text)))))),
                                      a.text, a.calls, 0),
                                  other_char_roles)

\* POST .../script/generate-outline
ep_generate_script_outline(fsys, t, name, groq) ==
    LET ld == load_project_state_safe(fsys, name) IN
    IF ld.status # "ok" THEN NotLoaded(ld, fsys, t)
    ELSE LET synopsis == IF Truthy(Field(ld.state, "concept", "final_synopsis"))
                         THEN Field(ld.state, "concept", "final_synopsis")
                         ELSE Field(ld.state, "concept", "chosen_logline")
         IN  IF ~Truthy(synopsis)
             THEN Outcome("PreconditionFailed", 400, fsys, t, Null, 0, 0)
             ELSE LET a == agent_generate_outline(synopsis,
                               Field(ld.state, "concept", "chosen_framework"), groq) IN
                  IF "raised" \in DOMAIN a
                  THEN Outcome("ServerError", 500, fsys, t, Null, 0, 0)
                  ELSE IF Contains(a.text.str, "Error:")
                  THEN Outcome("GenerationFailed", 500, fsys, t, a.text, a.calls, 0)
                  ELSE SaveAndReturn(fsys, t, SetField(ld.state, "script", "outline_md", a.text),
                                     a.text, a.calls, 0)

\* PUT .../script/full-script
ep_update_full_script(fsys, t, name, content) ==
    LET ld == load_project_state_safe(fsys, name) IN
    IF ld.status # "ok" THEN NotLoaded(ld, fsys, t)
    ELSE SaveAndReturn(fsys, t, SetField(ld.state, "script", "full_script_content", content),
                       S(<<"updated">>), 0, 0)

MinScriptLen == 50
ExcerptLen == 2000

\* the tail of analyze-issues once the excerpt is cut
AnalyzeExcerpt(fsys, t, state, excerpt, groq) ==
    LET a == agent_analyze_script_issues(excerpt, groq) IN
    AskedAbout(IF Contains(a.text.str, "Error:")
               THEN Outcome("GenerationFailed", 500, fsys, t, a.text, a.calls, 0)
               ELSE SaveAndReturn(fsys, t, SetField(state, "script", "analysis_md", a.text),
                                  a.text, a.calls, 0),
               excerpt)

\* a variant that passes the whole script
ep_analyze_script_issues_whole_script(fsys, t, name, groq) ==
    LET ld == load_project_state_safe(fsys, name) IN
    IF ld.status # "ok" THEN NotLoaded(ld, fsys, t)
    ELSE LET script_content == Field(ld.state, "script", "full_script_content") IN
         IF Len(script_content.str) < MinScriptLen
         THEN Outcome("PreconditionFailed", 400, fsys, t, Null, 0, 0)
         ELSE AnalyzeExcerpt(fsys, t, ld.state, script_content, groq)

\* POST .../script/analyze-issues
ep_analyze_script_issues(fsys, t, name, groq) ==
    LET ld == load_project_state_safe(fsys, name) IN
    IF ld.status # "ok" THEN NotLoaded(ld, fsys, t)
    ELSE LET script_content == Field(ld.state, "script", "full_script_content") IN
         IF Len(script_content.str) < MinScriptLen
         THEN Outcome("PreconditionFailed", 400, fsys, t, Null, 0, 0)
         ELSE AnalyzeExcerpt(fsys, t, ld.state, S(LastN(ExcerptLen, script_content.str)), groq)

\* the two-phase tail shared by the moodboard and storyboard endpoints
TextThenImages(fsys, t, state, a, image_parts, ideas_key, images_key) ==
    IF Contains(a.text.str, "Error:")
    THEN Outcome("GenerationFailed", 500, fsys, t, a.text, a.calls, 0)
    ELSE IF ErrorIn(image_parts)
    THEN Outcome("ImageFailed", 500, fsys, t, image_parts, a.calls, 1)
    ELSE SaveAndReturn(fsys, t,
             SetField(SetField(state, "pre_production", ideas_key, a.text),
                      "pre_production", images_key, image_parts),
             image_parts, a.calls, 1)

\* POST .../preproduction/generate-moodboard-ideas
ep_generate_moodboard(fsys, t, name, groq, image_parts) ==
    LET ld == load_project_state_safe(fsys, name) IN
    IF ld.status # "ok" THEN NotLoaded(ld, fsys, t)
    ELSE LET theme == Field(ld.state, "concept", "chosen_theme")
             genre == Field(ld.state, "concept", "seed_idea")
             synopsis == Field(ld.state, "concept", "final_synopsis")
         IN  IF ~Truthy(theme) /\ ~Truthy(genre) /\ ~Truthy(synopsis)
             THEN Outcome("PreconditionFailed", 400, fsys, t, Null, 0, 0)
             ELSE TextThenImages(fsys, t, ld.state,
                      agent_generate_moodboard_ideas(theme, genre, synopsis, groq),
                      image_parts, "moodboard_ideas_md", "moodboard_images")

ep_generate_storyboard_no_precondition(fsys, t, name, scene_text, groq, image_parts) ==
    LET ld == load_project_state_safe(fsys, name) IN
    IF ld.status # "ok" THEN NotLoaded(ld, fsys, t)
    ELSE TextThenImages(fsys, t, ld.state,
             agent_generate_storyboard_shot_ideas(scene_text, groq),
             image_parts, "storyboard_ideas_md", "storyboard_images")

\* POST .../preproduction/generate-storyboard-ideas
ep_generate_storyboard(fsys, t, name, scene_text, groq, image_parts) ==
    LET ld == load_project_state_safe(fsys, name) IN
    IF ld.status # "ok" THEN NotLoaded(ld, fsys, t)
    ELSE IF strip(scene_text.str) = <<>>
    THEN Outcome("PreconditionFailed", 400, fsys, t, Null, 0, 0)
    ELSE TextThenImages(fsys, t, ld.state,
             agent_generate_storyboard_shot_ideas(scene_text, groq),
             image_parts, "storyboard_ideas_md", "storyboard_images")

\* DELETE /projects/{project_name}: the HTTPException(404) raised inside the try
\* block is caught by "except Exception" and answered as 500
ep_delete_project(fsys, t, name) ==
    LET r == delete_project(fsys, name) IN
    IF r.status = "ok" /\ r.ret THEN Outcome("ok", 200, r.fs, t, Null, 0, 0)
    ELSE Outcome("ServerError", 500, r.fs, t, Null, 0, 0)

(***************************************************************************)
(* Inputs of the operations.                                               *)
(***************************************************************************)
Chars == {"A", "a", " ", "_", "\t"}

\* the strings over an alphabet of length at most n
RECURSIVE Strings(_, _)
Strings(alphabet, n) ==
    IF n = 0 THEN {<<>>}
    ELSE LET shorter == Strings(alphabet, n - 1)
         IN  shorter \cup {Append(s, c) : s \in {x \in shorter : Len(x) = n - 1}, c \in alphabet}

ProjectNames == {<<"A", " ", "b">>}

CharNames == {"Ava", "Bo"}

\* a failure of call_groq, plain content, content with the twists heading, and
\* content that quotes the marker after its first character
GroqResults == {S(<<"Error:", "rate limit">>), S(<<"t", "e", "x", "t">>),
                S(<<"p", "l", "o", "t", "\n", TwistsMarker, "\n", "x">>),
                S(<<"l", "o", "g", " ", "Error:", "x">>)}

ImageResults == {ImageError, L(<<Part("text"), Part("image/png")>>), L(<<Part("error")>>)}

\* the image collaborator answers only when the text phase let it be called
ImagesAfter(groq) == IF Contains(groq.str, "Error:") THEN {Null} ELSE ImageResults

Text(n, c) == S([i \in 1..n |-> c])

SeedIdeas == {S(<<"n", "o", "i", "r">>)}

SynopsisRequests ==
    {[logline |-> Null, framework |-> S(<<"Three-Act Structure">>), theme |-> Null, conflict |-> Null],
     [logline |-> S(<<"l", "o", "g">>), framework |-> Null, theme |-> Null, conflict |-> S(<<"w", "a", "r">>)]}

CharacterUpdates ==
    {[role |-> S(<<"h", "e", "r", "o">>),
      profile |-> D([backstory |-> S(<<>>), motivation |-> m, flaw |-> f])] :
        m \in {S(<<>>), S(<<"r", "e", "v", "e", "n", "g", "e">>)},
        f \in {S(<<>>), S(<<"f", "e", "a", "r">>)}}

ScriptContents == {Text(MinScriptLen - 1, "x"), Text(MinScriptLen, "x")}

\* a document with content in every sub-document and two characters
FilledBody(name) ==
    [project_name |-> S(name), cleaned_name |-> S(clean_name(name)),
     concept |-> D([seed_idea |-> S(<<"n", "o", "i", "r">>), chosen_theme |-> S(<<"f", "a", "t", "e">>)]),
     characters |->
        D([Ava |-> D([role |-> S(<<"h", "e", "r", "o">>),
                      profile |-> D([motivation |-> S(<<"r", "e", "v", "e", "n", "g", "e">>),
                                     flaw |-> S(<<"f", "e", "a", "r">>)]),
                      arc_description |-> S(<<"o", "l", "d">>),
                      relationship_suggestions |-> S(<<"r", "i", "v", "a", "l">>)]),
           Bo |-> D([role |-> S(<<"f", "o", "e">>), arc_description |-> S(<<"f", "a", "l", "l">>)])]),
     script |-> D([outline_md |-> S(<<"a", "c", "t">>), full_script_content |-> Text(MinScriptLen, "x")]),
     pre_production |-> D([moodboard_ideas_md |-> S(<<"r", "e", "d">>),
                           moodboard_images |-> L(<<Part("image/png")>>)])]

\* JSON bodies of PUT /projects/{name}: the first carries a cleaned_name that does
\* not derive from its project_name, the last a project_name that is not the path's
SaveBodies(name) ==
    {[project_name |-> S(name), cleaned_name |-> S(<<"z">>)],
     FilledBody(name),
     [project_name |-> S(name), cleaned_name |-> S(clean_name(name)),
      script |-> D([outline_md |-> S(<<"a", "c", "t">>)])],
     [project_name |-> S(<<"B">>), cleaned_name |-> S(<<"b">>)]}

\* GenerateStoryboardRequest admits scene texts of at least 50 characters
SceneTexts == {Text(MinSceneLen, " "), Text(MinSceneLen, "s")}

(***************************************************************************)
(* The server: one action per endpoint.                                    *)
(***************************************************************************)
Idle == [op |-> "none", name |-> <<>>, status |-> "none", http |-> 0, ret |-> Null,
         textCalls |-> 0, imgCalls |-> 0, asked |-> Null, pre |-> <<>>, groq |-> Null,
         images |-> Null, arg |-> Null, n |-> 0]

Init ==
    /\ fs = <<>>
    /\ now = 1
    /\ mem = Null
    /\ last = Idle
    /\ prev = Idle

\* one request served: o is the endpoint's outcome
Serve(op, name, o, groq, images, arg) ==
    /\ last.n < MaxOps
    /\ fs' = o.fs
    /\ now' = o.now
    /\ last' = [op |-> op, name |-> name, status |-> o.status, http |-> o.http, ret |-> o.ret,
                textCalls |-> o.textCalls, imgCalls |-> o.imgCalls, asked |-> o.asked, pre |-> fs,
                groq |-> groq, images |-> images, arg |-> arg, n |-> last.n + 1]
    /\ UNCHANGED <<mem, prev>>

CreateProject == \E name \in ProjectNames :
    Serve("create", name, ep_create_project(fs, now, name), Null, Null, Null)

LoadProject == \E name \in ProjectNames :
    Serve("load", name, ep_load_project(fs, now, name), Null, Null, Null)

GenerateConcepts == \E name \in ProjectNames, seed \in SeedIdeas, groq \in GroqResults :
    Serve("generate-concepts", name, ep_generate_initial_concepts(fs, now, name, seed, groq),
          groq, Null, seed)

GenerateSynopsis == \E name \in ProjectNames, request \in SynopsisRequests, groq \in GroqResults :
    Serve("generate-synopsis", name, ep_generate_synopsis(fs, now, name, request, groq),
          groq, Null, D(request))

\* arg holds the character name and the body of the request
SaveCharacter == \E name \in ProjectNames, c \in CharNames, update \in CharacterUpdates :
    Serve("save-character", name, ep_save_character_profile(fs, now, name, c, update),
          Null, Null, [str |-> <<c>>, body |-> D(update)])

GenerateArc == \E name \in ProjectNames, c \in CharNames, groq \in GroqResults :
    Serve("generate-arc", name, ep_generate_character_arc(fs, now, name, c, groq),
          groq, Null, S(<<c>>))

SuggestRelationships == \E name \in ProjectNames, c \in CharNames, groq \in GroqResults :
    Serve("suggest-relationships", name, ep_suggest_relationships(fs, now, name, c, groq),
          groq, Null, S(<<c>>))

GenerateOutline == \E name \in ProjectNames, groq \in GroqResults :
    Serve("generate-outline", name, ep_generate_script_outline(fs, now, name, groq),
          groq, Null, Null)

UpdateFullScript == \E name \in ProjectNames, content \in ScriptContents :
    Serve("update-full-script", name, ep_update_full_script(fs, now, name, content),
          Null, Null, content)

AnalyzeIssues == \E name \in ProjectNames, groq \in GroqResults :
    Serve("analyze-issues", name, ep_analyze_script_issues(fs, now, name, groq),
          groq, Null, Null)

GenerateMoodboard == \E name \in ProjectNames, groq \in GroqResults : \E images \in ImagesAfter(groq) :
    Serve("generate-moodboard", name, ep_generate_moodboard(fs, now, name, groq, images),
          groq, images, Null)

GenerateStoryboard ==
    \E name \in ProjectNames, scene \in SceneTexts, groq \in GroqResults : \E images \in ImagesAfter(groq) :
        Serve("generate-storyboard", name, ep_generate_storyboard(fs, now, name, scene, groq, images),
              groq, images, scene)

\* the body reaches the endpoint as a SaveProjectRequest, a ProjectState
SaveProject == \E name \in ProjectNames : \E body \in SaveBodies(name) :
    Serve("save", name, ep_save_project(fs, now, name, ProjectState(body)), Null, Null, D(body))

Next ==
    \/ CreateProject
    \/ SaveProject
    \/ LoadProject
    \/ GenerateConcepts
    \/ GenerateSynopsis
    \/ SaveCharacter
    \/ GenerateArc
    \/ SuggestRelationships
    \/ GenerateOutline
    \/ UpdateFullScript
    \/ AnalyzeIssues
    \/ GenerateMoodboard
    \/ GenerateStoryboard

Spec == Init /\ [][Next]_vars

(***************************************************************************)
(* Properties of the server (Spec).                                        *)
(***************************************************************************)
LogOf(doc) == doc.dict["log"].list

StoredDocsOf(fsys) == UNION {{fsys[d][f] : f \in DOMAIN fsys[d]} : d \in DOMAIN fsys}

GenerationOps == {"generate-concepts", "generate-synopsis", "generate-arc", "suggest-relationships",
                  "generate-outline", "analyze-issues", "generate-moodboard", "generate-storyboard"}

BeginsWithError(text) == IsStr(text) /\ text.str # <<>> /\ Head(text.str) = "Error:"

\* the stored document of the project the last request named, before the request
DocBefore == ReadFile(last.pre, StatePath(last.name))

ExistedBefore == PathExists(last.pre, StatePath(last.name))

\* C1: when the text collaborator answers a generation operation with a failure,
\* the operation fails and the stored documents are what they were before it.
C1_FailedGenerationKeepsStore ==
    (last.op \in GenerationOps /\ last.textCalls = 1 /\ BeginsWithError(last.groq)) =>
        /\ last.status = "GenerationFailed"
        /\ fs = last.pre

\* generate-arc reached the collaborator, which failed, on a project that holds a character
C1_Witness ==
    /\ last.op = "generate-arc" /\ last.textCalls = 1 /\ BeginsWithError(last.groq)
    /\ ExistedBefore
    /\ last.arg.str[1] \in DOMAIN DocBefore.dict["characters"].dict

\* an image result that is empty or holds only parts of type "error" is a failure, as
\* is the error mapping
ImagePhaseFailed(images) ==
    \/ IsDict(images)
    \/ /\ IsList(images)
       /\ \A i \in 1..Len(images.list) : images.list[i].dict["type"] = S(<<"error">>)

\* C2: when the text phase of generate-moodboard or generate-storyboard succeeds
\* and the image phase fails, the stored document is unchanged.
C2_ImageFailureKeepsStore ==
    (last.op \in {"generate-moodboard", "generate-storyboard"} /\ last.imgCalls = 1
        /\ ImagePhaseFailed(last.images)) =>
        /\ last.status # "ok"
        /\ fs = last.pre

\* C7: generate-arc for an existing character whose motivation or flaw is empty
\* fails with a precondition error, calls no collaborator and stores nothing.
C7_ArcNeedsMotivationAndFlaw ==
    (last.op = "generate-arc" /\ ExistedBefore
        /\ last.arg.str[1] \in DOMAIN DocBefore.dict["characters"].dict
        /\ LET profile == DocBefore.dict["characters"].dict[last.arg.str[1]].dict["profile"].dict
           IN  profile["motivation"] = S(<<>>) \/ profile["flaw"] = S(<<>>)) =>
        /\ last.status = "PreconditionFailed"
        /\ last.http = 400
        /\ last.textCalls = 0
        /\ fs = last.pre

\* the character has a motivation and no flaw, and the collaborator would have answered
C7_Witness ==
    /\ last.op = "generate-arc" /\ ExistedBefore
    /\ last.arg.str[1] \in DOMAIN DocBefore.dict["characters"].dict
    /\ LET profile == DocBefore.dict["characters"].dict[last.arg.str[1]].dict["profile"].dict
       IN  profile["motivation"] # S(<<>>) /\ profile["flaw"] = S(<<>>)
    /\ ~BeginsWithError(last.groq)
    /\ last.status = "PreconditionFailed"

C13_CreateExistingRefused ==
    (last.op = "create" /\ ExistedBefore) =>
        /\ last.status = "AlreadyExists"
        /\ last.http = 409
        /\ fs = last.pre

\* the project that was asked for again held a generated concept
C13_Witness ==
    /\ last.op = "create" /\ ExistedBefore
    /\ last.http = 409
    /\ DocBefore.dict["concept"].dict["generated_concepts_md"] # S(<<>>)
    /\ ReadFile(fs, StatePath(last.name)) = DocBefore

\* C16: a save request (PUT) for a project that exists, whose body names the
\* project of the path, succeeds: the document is stored and the answer is the
\* stored document, with its new last_saved and its new log entry.
C16_SaveExistingSucceeds ==
    (last.op = "save" /\ ExistedBefore /\ last.arg.dict["project_name"] = S(last.name)) =>
        /\ last.status = "ok"
        /\ last.http = 200
        /\ last.ret = ProjectState(ReadFile(fs, StatePath(last.name)).dict)
        /\ last.ret.dict["last_saved"] = TS(now - 1)
        /\ LogOf(last.ret)[Len(LogOf(last.ret))] = Msg("saved", <<>>, now - 1)

\* the operations that write one subtree of the document
SubtreeOps == GenerationOps \cup {"save-character", "update-full-script"}

\* the fields <<sub-document, field>> an operation writes outside characters
WrittenFields(op) ==
    CASE op = "generate-concepts" -> {<<"concept", "seed_idea">>, <<"concept", "generated_concepts_md">>}
      [] op = "generate-synopsis" ->
            {<<"concept", f>> : f \in {"chosen_logline", "chosen_framework", "chosen_theme",
                                        "chosen_conflict", "synopsis_md", "final_synopsis"}}
      [] op = "generate-outline" -> {<<"script", "outline_md">>}
      [] op = "update-full-script" -> {<<"script", "full_script_content">>}
      [] op = "analyze-issues" -> {<<"script", "analysis_md">>}
      [] op = "generate-moodboard" ->
            {<<"pre_production", "moodboard_ideas_md">>, <<"pre_production", "moodboard_images">>}
      [] op = "generate-storyboard" ->
            {<<"pre_production", "storyboard_ideas_md">>, <<"pre_production", "storyboard_images">>}
      [] OTHER -> {}

\* the fields of the character it names that an operation writes
WrittenCharacterFields(op) ==
    CASE op = "save-character" -> DOMAIN CharacterDataDefaults
      [] op = "generate-arc" -> {"arc_description"}
      [] op = "suggest-relationships" -> {"relationship_suggestions"}
      [] OTHER -> {}

DocAfter == ReadFile(fs, StatePath(last.name))

\* C20: a successful operation changes, in the stored document, only the fields
\* of the subtree it is named for, last_saved and log; generate-arc for a
\* character changes only that character's arc_description.
C20_OnlyNamedSubtreeChanges ==
    (last.op \in SubtreeOps /\ last.status = "ok" /\ ExistedBefore) =>
        LET before == DocBefore.dict
            after == DocAfter.dict
            target == IF WrittenCharacterFields(last.op) = {} THEN "" ELSE last.arg.str[1]
        IN  /\ DOMAIN after = DOMAIN before
            /\ \A k \in {"project_name", "cleaned_name", "current_phase"} : after[k] = before[k]
            /\ \A k \in {"concept", "script", "pre_production"} :
                   /\ DOMAIN after[k].dict = DOMAIN before[k].dict
                   /\ \A f \in DOMAIN before[k].dict :
                          <<k, f>> \notin WrittenFields(last.op) => after[k].dict[f] = before[k].dict[f]
            /\ DOMAIN after["characters"].dict \subseteq DOMAIN before["characters"].dict \cup {target}
            /\ \A c \in DOMAIN before["characters"].dict :
                   /\ c \in DOMAIN after["characters"].dict
                   /\ c # target => after["characters"].dict[c] = before["characters"].dict[c]
                   /\ c = target =>
                          \A f \in DOMAIN CharacterDataDefaults \ WrittenCharacterFields(last.op) :
                              after["characters"].dict[c].dict[f] = before["characters"].dict[c].dict[f]

\* generate-arc succeeded for a character that had an arc and relationship text, in
\* a document with another character and content in every sub-document
C20_Witness ==
    /\ last.op = "generate-arc" /\ last.status = "ok" /\ ExistedBefore
    /\ last.arg.str = <<"Ava">>
    /\ "Bo" \in DOMAIN DocBefore.dict["characters"].dict
    /\ DocBefore.dict["characters"].dict["Ava"].dict["relationship_suggestions"] # S(<<>>)
    /\ DocBefore.dict["script"].dict["outline_md"] # S(<<>>)
    /\ DocAfter.dict["characters"].dict["Ava"].dict["arc_description"] = last.groq
    /\ DocBefore.dict["characters"].dict["Ava"].dict["arc_description"] # last.groq

\* the operations that check the request or the loaded state before they generate
PreconditionOps == {"generate-synopsis", "generate-outline", "analyze-issues",
                    "generate-moodboard", "generate-storyboard"}

\* the precondition of the last request does not hold in the document stored before it
PreconditionUnmet ==
    LET concept == DocBefore.dict["concept"].dict
        empty(v) == IsNull(v) \/ v = S(<<>>)
    IN  CASE last.op = "generate-synopsis" ->
                /\ empty(last.arg.dict["logline"]) /\ empty(concept["chosen_logline"])
                /\ empty(last.arg.dict["theme"]) /\ empty(concept["chosen_theme"])
          [] last.op = "generate-outline" ->
                empty(concept["final_synopsis"]) /\ empty(concept["chosen_logline"])
          [] last.op = "analyze-issues" ->
                Len(DocBefore.dict["script"].dict["full_script_content"].str) < MinScriptLen
          [] last.op = "generate-moodboard" ->
                /\ empty(concept["chosen_theme"]) /\ empty(concept["seed_idea"])
                /\ empty(concept["final_synopsis"])
          [] last.op = "generate-storyboard" ->
                \A i \in 1..Len(last.arg.str) : last.arg.str[i] \in Whitespace
          [] OTHER -> FALSE

\* C25: a request for generate-synopsis, generate-outline, analyze-issues,
\* generate-moodboard or generate-storyboard whose precondition does not hold
\* fails with 400, with no call to a collaborator, and leaves the stored
\* documents as they were.
C25_UnmetPreconditionFailsFirst ==
    (last.op \in PreconditionOps /\ ExistedBefore /\ PreconditionUnmet) =>
        /\ last.status = "PreconditionFailed"
        /\ last.http = 400
        /\ last.textCalls = 0
        /\ last.imgCalls = 0
        /\ fs = last.pre

\* generate-storyboard for a blank scene text, on a stored project, when both
\* collaborators would have answered
C25_Witness ==
    /\ last.op = "generate-storyboard" /\ ExistedBefore /\ PreconditionUnmet
    /\ Len(last.arg.str) >= MinSceneLen
    /\ ~BeginsWithError(last.groq)
    /\ IsList(last.images) /\ ~ImagePhaseFailed(last.images)
    /\ last.status = "PreconditionFailed"

\* generate-synopsis with neither logline nor theme in the request or the document
C25_WitnessSynopsis ==
    /\ last.op = "generate-synopsis" /\ ExistedBefore /\ PreconditionUnmet
    /\ ~BeginsWithError(last.groq)
    /\ last.status = "PreconditionFailed"

\* the last request wrote the stored document of an existing project
WroteSubtree == last.op \in SubtreeOps /\ last.status = "ok" /\ ExistedBefore /\ fs # last.pre

C27_SaveCharacterReplacesRecord ==
    (last.op = "save-character" /\ last.status = "ok" /\ ExistedBefore
        /\ last.arg.str[1] \in DOMAIN DocBefore.dict["characters"].dict) =>
        LET c == last.arg.str[1]
            rec == DocAfter.dict["characters"].dict[c].dict
        IN  /\ DOMAIN DocAfter.dict["characters"].dict = DOMAIN DocBefore.dict["characters"].dict
            /\ rec["role"] = last.arg.body.dict["role"]
            /\ rec["profile"] = last.arg.body.dict["profile"]
            /\ rec["arc_description"] = S(<<>>)
            /\ rec["relationship_suggestions"] = S(<<>>)

\* what save-character does to the record of an existing name: the role and the
\* profile are those of the request, the arc and relationship texts are kept
SaveCharacterKeepsTexts ==
    (last.op = "save-character" /\ last.status = "ok" /\ ExistedBefore
        /\ last.arg.str[1] \in DOMAIN DocBefore.dict["characters"].dict) =>
        LET c == last.arg.str[1]
            old == DocBefore.dict["characters"].dict[c].dict
            rec == DocAfter.dict["characters"].dict[c].dict
        IN  /\ DOMAIN DocAfter.dict["characters"].dict = DOMAIN DocBefore.dict["characters"].dict
            /\ rec["role"] = last.arg.body.dict["role"]
            /\ rec["profile"] = last.arg.body.dict["profile"]
            /\ rec["arc_description"] = old["arc_description"]
            /\ rec["relationship_suggestions"] = old["relationship_suggestions"]
            /\ last.ret = D(rec)

\* the fields of the request and the fields of concept they choose
ChosenFields == {<<"logline", "chosen_logline">>, <<"framework", "chosen_framework">>,
                 <<"theme", "chosen_theme">>, <<"conflict", "chosen_conflict">>}

OthersWithRole ==
    LET chars == DocBefore.dict["characters"].dict IN
    {x \in DOMAIN chars \ {last.arg.str[1]} : chars[x].dict["role"] # S(<<>>)}

\* C29: suggest-relationships for a character of the document answers an advisory
\* message, with no collaborator call and no change of the stored documents, when
\* no other character has a role; otherwise the collaborator is asked with the
\* roles of exactly the other characters, and on success the stored document
\* differs from the one before in the relationship_suggestions of that character
\* only (last_saved and log apart).
C29_RelationshipsFromOtherRoles ==
    (last.op = "suggest-relationships" /\ ExistedBefore
        /\ last.arg.str[1] \in DOMAIN DocBefore.dict["characters"].dict) =>
        LET c == last.arg.str[1]
            chars == DocBefore.dict["characters"].dict
            written == Put(chars, c, D(Put(chars[c].dict, "relationship_suggestions", last.groq)))
        IN  IF OthersWithRole = {}
            THEN /\ last.status = "ok"
                 /\ last.ret = S(<<"No other characters">>)
                 /\ last.textCalls = 0
                 /\ fs = last.pre
            ELSE /\ last.textCalls = 1
                 /\ last.asked = [roles |-> {chars[x].dict["role"] : x \in OthersWithRole}]
                 /\ last.status = "ok" =>
                        /\ last.ret = last.groq
                        /\ Put(Put(DocAfter.dict, "log", DocBefore.dict["log"]),
                               "last_saved", DocBefore.dict["last_saved"])
                             = Put(DocBefore.dict, "characters", D(written))

\* the collaborator answered for Ava in a document that holds Bo, with another role
C29_Witness ==
    /\ last.op = "suggest-relationships" /\ ExistedBefore /\ last.status = "ok"
    /\ last.arg.str = <<"Ava">>
    /\ OthersWithRole = {"Bo"}
    /\ DocBefore.dict["characters"].dict["Bo"].dict["role"]
          # DocBefore.dict["characters"].dict["Ava"].dict["role"]
    /\ DocAfter.dict["characters"].dict["Ava"].dict["relationship_suggestions"] = last.groq
    /\ DocBefore.dict["characters"].dict["Ava"].dict["relationship_suggestions"] # last.groq

\* the document holds no other character: the advisory message
C29_WitnessAdvisory ==
    /\ last.op = "suggest-relationships" /\ ExistedBefore
    /\ DOMAIN DocBefore.dict["characters"].dict = {last.arg.str[1]}
    /\ ~BeginsWithError(last.groq)
    /\ last.ret = S(<<"No other characters">>)

\* C30: when the image collaborator answers generate-moodboard or
\* generate-storyboard with a sequence of parts that is empty or holds only parts
\* of type "error", the request fails and the stored documents are unchanged.
C30_ErrorPartsOnlyIsFailure ==
    (last.op \in {"generate-moodboard", "generate-storyboard"} /\ last.imgCalls = 1
        /\ IsList(last.images)
        /\ \A i \in 1..Len(last.images.list) : last.images.list[i].dict["type"] = S(<<"error">>)) =>
        /\ last.status \in {"ImageFailed", "GenerationFailed"}
        /\ last.http >= 400
        /\ fs = last.pre
        /\ ExistedBefore => DocAfter.dict["pre_production"] = DocBefore.dict["pre_production"]

\* the root fields every document has
\* generate-outline asked of a stored project with a synopsis or logline, when
\* the text collaborator has content to give
OutlineAskedWithContent ==
    /\ last.op = "generate-outline" /\ ExistedBefore /\ ~PreconditionUnmet
    /\ ~Contains(last.groq.str, "Error:")

\* C31: generate-outline on a stored project whose final_synopsis or chosen_logline
\* is non-empty, when the text collaborator returns content, writes that content to
\* script.outline_md of the stored document and returns it.
C31_OutlineWrittenAndReturned ==
    OutlineAskedWithContent =>
        /\ last.status = "ok"
        /\ last.ret = last.groq
        /\ DocAfter.dict["script"].dict["outline_md"] = last.groq

\* C32: an operation that reached the text collaborator fails on its answer exactly
\* when the answer begins with "Error:"; any other answer is written and stored.
C32_FailureIffBeginsWithError ==
    (last.op \in GenerationOps \ {"generate-moodboard", "generate-storyboard"}
        /\ last.textCalls = 1) =>
        /\ last.status = "GenerationFailed" <=> BeginsWithError(last.groq)
        /\ ~BeginsWithError(last.groq) => (last.status = "ok" /\ fs # last.pre)

RequiredRootFields == DOMAIN DEFAULT_PROJECT_STATE

\* C22: whatever requests were served, failed ones included, every stored
\* document holds all the root fields: project_name, cleaned_name, current_phase,
\* concept, characters, script, pre_production, last_saved and log.
C22_StoredDocumentsComplete ==
    \A doc \in StoredDocsOf(fs) : IsDict(doc) /\ RequiredRootFields \subseteq DOMAIN doc.dict

\* a request failed at the image phase, after its text phase, on a stored project
C22_Witness ==
    /\ last.status = "ImageFailed" /\ last.textCalls = 1 /\ last.imgCalls = 1
    /\ ExistedBefore
    /\ fs = last.pre
    /\ DocAfter.dict["last_saved"] # Null

\* a request failed at its precondition on a stored project
C22_WitnessPrecondition ==
    /\ last.status = "PreconditionFailed" /\ last.op = "generate-outline"
    /\ ExistedBefore
    /\ RequiredRootFields \subseteq DOMAIN DocAfter.dict

(***************************************************************************)
(* The store used on its own: one caller holds a state mapping in memory   *)
(* (mem), creates, saves and loads one project and edits the mapping in    *)
(* between.  memLog and fsLog are history: every message ever appended to  *)
(* the log of mem and of the stored document, none evicted.                *)
(***************************************************************************)
LogProject == <<"A", " ", "b">>

StoreIdle == [op |-> "none", name |-> <<>>, status |-> "none", ret |-> Null,
              saves |-> 0, loads |-> 0, edits |-> 0, memLog |-> <<>>, fsLog |-> <<>>]

StoreInit ==
    /\ fs = <<>>
    /\ now = 1
    /\ mem = Null
    /\ last = StoreIdle
    /\ prev = StoreIdle

StoreCreate ==
    /\ mem = Null
    /\ LET r == create_project(fs, now, LogProject) IN
       /\ fs' = r.fs
       /\ now' = r.now
       /\ mem' = r.ret
       /\ last' = [last EXCEPT !.op = "create", !.name = LogProject, !.status = r.status,
                               !.ret = r.ret,
                               !.memLog = r.ret.dict["log"].list,
                               !.fsLog = r.ret.dict["log"].list]
    /\ prev' = last

\* save_project(mem): the mapping is updated in place and returned
StoreSave ==
    /\ mem # Null
    /\ last.saves < MaxSaves
    /\ LET r == save_project(fs, now, mem) IN
       /\ fs' = r.fs
       /\ now' = r.now
       /\ mem' = r.ret
       /\ last' = [last EXCEPT !.op = "save", !.name = mem.dict["project_name"].str,
                               !.status = r.status, !.ret = r.ret, !.saves = @ + 1,
                               !.memLog = Append(@, Msg("saved", <<>>, now)),
                               !.fsLog = Append(last.memLog, Msg("saved", <<>>, now))]
    /\ prev' = last

StoreLoad ==
    /\ mem # Null
    /\ last.loads < MaxLoads
    /\ LET r == load_project(fs, LogProject) IN
       /\ mem' = r.ret
       /\ last' = [last EXCEPT !.op = "load", !.name = LogProject, !.status = r.status,
                               !.ret = r.ret, !.loads = @ + 1,
                               !.memLog = Append(last.fsLog, Msg("loaded", LogProject, 0))]
    /\ prev' = last
    /\ UNCHANGED <<fs, now>>

\* what the caller may change in the mapping it holds
StoreEdits(state) ==
    {SetField(state, "script", "full_script_content", S(<<"I", "N", "T", ".">>)),
     D(Put(state.dict, "characters",
           D(Put(state.dict["characters"].dict, "Ava",
                 CharacterData(D([role |-> S(<<"h", "e", "r", "o">>)]))))))}

StoreEdit ==
    /\ mem # Null
    /\ last.edits < MaxEdits
    /\ \E edited \in StoreEdits(mem) :
        /\ mem' = edited
        /\ last' = [last EXCEPT !.op = "edit", !.status = "ok", !.ret = edited, !.edits = @ + 1]
    /\ prev' = last
    /\ UNCHANGED <<fs, now>>

StoreNext == StoreCreate \/ StoreSave \/ StoreLoad \/ StoreEdit

SpecStore == StoreInit /\ [][StoreNext]_vars

(***************************************************************************)
(* Properties of the store used on its own (SpecStore).                    *)
(***************************************************************************)
WroteDocument == last.op \in {"create", "save"} /\ last.status = "ok"

\* C3: the log of every stored document, and of the document a save returns,
\* has at most 50 entries.
C3_LogWithinCap ==
    /\ \A doc \in StoredDocsOf(fs) : Len(LogOf(doc)) <= LogCap
    /\ WroteDocument => Len(LogOf(last.ret)) <= LogCap

\* C4: after more than 50 saves of one project the stored log has exactly 50
\* entries, the 50 most recent messages in the order they were appended.
C4_LogKeepsMostRecent ==
    (last.op = "save" /\ last.status = "ok" /\ last.saves > LogCap) =>
        \A doc \in StoredDocsOf(fs) :
            /\ Len(LogOf(doc)) = LogCap
            /\ LogOf(doc) = LastN(LogCap, last.fsLog)

C12_LoadAfterCreateHasTwoEntries ==
    (last.op = "load" /\ prev.op = "create" /\ prev.status = "ok") =>
        /\ last.status = "ok"
        /\ last.ret.dict["characters"] = D(EmptyMap)
        /\ last.ret.dict["concept"] = D(DEFAULT_CONCEPT)
        /\ last.ret.dict["script"] = D(DEFAULT_SCRIPT)
        /\ LogOf(last.ret) = <<Msg("created", LogProject, 0), Msg("loaded", LogProject, 0)>>

\* C12 amended: a load right after the creation of the project returns the
\* default characters, concept and script, and a log of exactly 3 entries: the
\* creation entry, the "saved at" entry of the first save and the "loaded" entry.
C12_LoadAfterCreateHasThreeEntries ==
    (last.op = "load" /\ prev.op = "create" /\ prev.status = "ok") =>
        /\ last.status = "ok"
        /\ last.ret.dict["characters"] = D(EmptyMap)
        /\ last.ret.dict["concept"] = D(DEFAULT_CONCEPT)
        /\ last.ret.dict["script"] = D(DEFAULT_SCRIPT)
        /\ Len(LogOf(last.ret)) = 3
        /\ LogOf(last.ret)[1] = Msg("created", LogProject, 0)
        /\ LogOf(last.ret)[2].msg = "saved"
        /\ LogOf(last.ret)[3] = Msg("loaded", LogProject, 0)

\* the project was created and then loaded, and the stored log still has the two
\* entries the creation wrote
C12_Witness ==
    /\ last.op = "load" /\ last.status = "ok"
    /\ prev.op = "create" /\ prev.status = "ok"
    /\ prev.ret.dict["last_saved"] # Null
    /\ Len(LogOf(ReadFile(fs, StatePath(LogProject)))) = 2
    /\ Len(LogOf(last.ret)) = 3

(***************************************************************************)
(* Loading documents stored under an older schema (SpecMerge): the stored  *)
(* document lacks root fields or nested fields, holds fields the schema    *)
(* does not know, or holds a value of another container type.              *)
(***************************************************************************)
FullStored ==
    [project_name |-> S(LogProject),
     cleaned_name |-> S(clean_name(LogProject)),
     current_phase |-> S(<<"Script">>),
     concept |-> D([DEFAULT_CONCEPT EXCEPT !["seed_idea"] = S(<<"n", "o", "i", "r">>),
                                           !["chosen_framework"] = S(<<"Hero's Journey">>)]),
     characters |-> D([Ava |-> CharacterData(D([role |-> S(<<"h", "e", "r", "o">>)]))]),
     script |-> D([DEFAULT_SCRIPT EXCEPT !["outline_md"] = S(<<"a", "c", "t">>)]),
     pre_production |-> D([DEFAULT_PRE_PRODUCTION EXCEPT !["moodboard_images"] = L(<<Part("image/png")>>)]),
     last_saved |-> TS(0),
     log |-> L(<<Msg("created", LogProject, 0), Msg("saved", <<>>, 0)>>)]

Without(d, keys) == [k \in DOMAIN d \ keys |-> d[k]]

StoredShapes == {"full", "no_final_synopsis", "no_moodboard_images", "concept_is_string",
                 "images_is_mapping", "log_is_string", "unknown_fields", "other_names"}

Shaped(shape) ==
    CASE shape = "no_final_synopsis" ->
            Put(FullStored, "concept", D(Without(FullStored["concept"].dict, {"final_synopsis"})))
      [] shape = "no_moodboard_images" ->
            Put(FullStored, "pre_production",
                D(Without(FullStored["pre_production"].dict, {"moodboard_images"})))
      [] shape = "concept_is_string" -> Put(FullStored, "concept", S(<<"n", "o", "i", "r">>))
      [] shape = "images_is_mapping" ->
            Put(FullStored, "pre_production",
                D(Put(FullStored["pre_production"].dict, "moodboard_images", D([a |-> Part("image/png")]))))
      [] shape = "log_is_string" -> Put(FullStored, "log", S(<<"l", "o", "g">>))
      [] shape = "other_names" ->
            Put(Put(FullStored, "project_name", S(<<"B">>)), "cleaned_name", S(<<"z">>))
      [] shape = "unknown_fields" ->
            Put(Put(FullStored, "notes", S(<<"k", "e", "e", "p">>)), "script",
                D(Put(FullStored["script"].dict, "legacy", S(<<"o", "l", "d">>))))
      [] OTHER -> FullStored

DroppableRootFields == {"current_phase", "concept", "script", "pre_production", "log"}

MergeInit ==
    /\ \E shape \in StoredShapes, dropped \in SUBSET DroppableRootFields :
          fs = WriteFile(<<>>, StatePath(LogProject), D(Without(Shaped(shape), dropped)))
    /\ now = 1
    /\ mem = Null
    /\ last = StoreIdle
    /\ prev = StoreIdle

MergeLoad ==
    /\ last.loads < MaxLoads
    /\ LET r == load_project(fs, LogProject) IN
       /\ mem' = r.ret
       /\ last' = [last EXCEPT !.op = "load", !.name = LogProject, !.status = r.status,
                               !.ret = r.ret, !.loads = @ + 1]
    /\ prev' = last
    /\ UNCHANGED <<fs, now>>

SpecMerge == MergeInit /\ [][MergeLoad]_vars

Stored == ReadFile(fs, StatePath(LogProject)).dict

Loaded == last.ret.dict

\* fields load sets itself after the merge
SetByLoad == {"project_name", "cleaned_name", "log"}

TypeConflict(dflt, val) == (IsDict(dflt) /\ ~IsDict(val)) \/ (IsList(dflt) /\ ~IsList(val))

LacksSchemaField ==
    \/ \E k \in DOMAIN DEFAULT_PROJECT_STATE : k \notin DOMAIN Stored
    \/ \E k \in DOMAIN DEFAULT_PROJECT_STATE \cap DOMAIN Stored :
          /\ IsDict(DEFAULT_PROJECT_STATE[k]) /\ IsDict(Stored[k])
          /\ \E j \in DOMAIN DEFAULT_PROJECT_STATE[k].dict : j \notin DOMAIN Stored[k].dict

\* every field of the schema is in the loaded document, with its default when it was not stored
Backfilled ==
    /\ \A k \in DOMAIN DEFAULT_PROJECT_STATE :
          /\ k \in DOMAIN Loaded
          /\ (k \notin DOMAIN Stored /\ k \notin SetByLoad) => Loaded[k] = DEFAULT_PROJECT_STATE[k]
          /\ IsDict(DEFAULT_PROJECT_STATE[k]) =>
                /\ IsDict(Loaded[k])
                /\ \A j \in DOMAIN DEFAULT_PROJECT_STATE[k].dict :
                      /\ j \in DOMAIN Loaded[k].dict
                      /\ (k \in DOMAIN Stored /\ IsDict(Stored[k]) /\ j \notin DOMAIN Stored[k].dict)
                            => Loaded[k].dict[j] = DEFAULT_PROJECT_STATE[k].dict[j]

\* stored field k (nested field j of it) has the value that was stored
RootKept(k) == k \in DOMAIN Loaded /\ Loaded[k] = Stored[k]

NestedKept(k, j) == IsDict(Loaded[k]) /\ j \in DOMAIN Loaded[k].dict /\ Loaded[k].dict[j] = Stored[k].dict[j]

IsSubDocument(k) == k \in DOMAIN DEFAULT_PROJECT_STATE /\ IsDict(DEFAULT_PROJECT_STATE[k]) /\ IsDict(Stored[k])

\* C6 as stated: a load of a stored document that lacks a schema field returns
\* that field with its default, and every stored field with its stored value.
C6_EveryStoredFieldKept ==
    (last.op = "load" /\ last.status = "ok" /\ LacksSchemaField) =>
        /\ Backfilled
        /\ \A k \in DOMAIN Stored \ SetByLoad :
              IF IsSubDocument(k)
              THEN \A j \in DOMAIN Stored[k].dict : NestedKept(k, j)
              ELSE RootKept(k)

\* C6 amended: ... every stored field with its stored value, unless the stored
\* value is not a mapping where the schema has one, or not a sequence where the
\* schema has one: then the loaded document holds the empty or default container.
C6_StoredFieldsKeptUnlessTypeConflict ==
    (last.op = "load" /\ last.status = "ok" /\ LacksSchemaField) =>
        /\ Backfilled
        /\ \A k \in DOMAIN Stored \ SetByLoad :
              IF k \in DOMAIN DEFAULT_PROJECT_STATE /\ TypeConflict(DEFAULT_PROJECT_STATE[k], Stored[k])
              THEN Loaded[k] = DEFAULT_PROJECT_STATE[k]
              ELSE IF IsSubDocument(k)
              THEN \A j \in DOMAIN Stored[k].dict :
                      IF j \in DOMAIN DEFAULT_PROJECT_STATE[k].dict
                         /\ TypeConflict(DEFAULT_PROJECT_STATE[k].dict[j], Stored[k].dict[j])
                      THEN Loaded[k].dict[j] = L(<<>>)
                      ELSE NestedKept(k, j)
              ELSE RootKept(k)

\* the stored document lacks the script sub-document and a field of the concept
\* sub-document, and holds concept content
C6_Witness ==
    /\ last.op = "load" /\ last.status = "ok"
    /\ "script" \notin DOMAIN Stored
    /\ "concept" \in DOMAIN Stored /\ IsDict(Stored["concept"])
    /\ "final_synopsis" \notin DOMAIN Stored["concept"].dict
    /\ Stored["concept"].dict["seed_idea"] # S(<<>>)
    /\ Loaded["concept"].dict["final_synopsis"] = S(<<>>)

\* C23: a successful load of "A b" returns a document whose project_name is
\* "A b" and whose cleaned_name is "a_b", whatever names the file held.
C23_LoadSetsNamesFromRequest ==
    (last.op = "load" /\ last.status = "ok") =>
        /\ last.name = <<"A", " ", "b">>
        /\ Loaded["project_name"] = S(last.name)
        /\ Loaded["cleaned_name"] = S(<<"a", "_", "b">>)

\* the file held another project name and a cleaned name that derives from neither
C23_Witness ==
    /\ last.op = "load" /\ last.status = "ok"
    /\ Stored["project_name"] = S(<<"B">>)
    /\ Stored["cleaned_name"] = S(<<"z">>)
    /\ Loaded["project_name"] = S(<<"A", " ", "b">>)

\* the root fields, and the <<sub-document, field>> pairs, stored with another
\* container type than the schema's
RootConflicts ==
    {k \in DOMAIN DEFAULT_PROJECT_STATE \cap DOMAIN Stored :
        TypeConflict(DEFAULT_PROJECT_STATE[k], Stored[k])}

NestedConflicts ==
    {kj \in UNION {{<<k, j>> : j \in DOMAIN DEFAULT_PROJECT_STATE[k].dict \cap DOMAIN Stored[k].dict} :
                      k \in {x \in DOMAIN Stored : IsSubDocument(x)}} :
        TypeConflict(DEFAULT_PROJECT_STATE[kj[1]].dict[kj[2]], Stored[kj[1]].dict[kj[2]])}

\* C24: a load of a document that stores a value of the wrong container type
\* succeeds and returns the schema's default value for that field.
C24_TypeConflictGivesSchemaDefault ==
    (last.op = "load" /\ (RootConflicts # {} \/ NestedConflicts # {})) =>
        /\ last.status = "ok"
        /\ \A k \in RootConflicts : Loaded[k] = DEFAULT_PROJECT_STATE[k]
        /\ \A kj \in NestedConflicts :
               Loaded[kj[1]].dict[kj[2]] = DEFAULT_PROJECT_STATE[kj[1]].dict[kj[2]]

\* what load_project returns for such a field: the schema's default mapping where
\* the schema has a mapping and the empty sequence where it has a sequence; for
\* log, the empty sequence followed by the entry of the load.
TypeConflictGivesDefaultMappingOrEmptySequence ==
    (last.op = "load" /\ (RootConflicts # {} \/ NestedConflicts # {})) =>
        /\ last.status = "ok"
        /\ \A k \in RootConflicts :
               IF k = "log" THEN Loaded[k] = L(<<Msg("loaded", last.name, 0)>>)
               ELSE IF IsDict(DEFAULT_PROJECT_STATE[k]) THEN Loaded[k] = DEFAULT_PROJECT_STATE[k]
               ELSE Loaded[k] = L(<<>>)
        /\ \A kj \in NestedConflicts :
               IF IsDict(DEFAULT_PROJECT_STATE[kj[1]].dict[kj[2]])
               THEN Loaded[kj[1]].dict[kj[2]] = DEFAULT_PROJECT_STATE[kj[1]].dict[kj[2]]
               ELSE Loaded[kj[1]].dict[kj[2]] = L(<<>>)

\* the file held a string for concept and a mapping for the moodboard images, or a
\* string for log
C24_Witness ==
    /\ last.op = "load" /\ last.status = "ok"
    /\ \/ /\ "concept" \in RootConflicts
          /\ Loaded["concept"] = D(DEFAULT_CONCEPT)
       \/ /\ <<"pre_production", "moodboard_images">> \in NestedConflicts
          /\ Loaded["pre_production"].dict["moodboard_images"] = L(<<>>)

\* the file held a string for log
C24_WitnessLog ==
    /\ last.op = "load" /\ last.status = "ok"
    /\ "log" \in RootConflicts
    /\ Loaded["log"] # DEFAULT_PROJECT_STATE["log"]

(***************************************************************************)
(* Creating projects under several display names (SpecCreate).             *)
(***************************************************************************)
CreateNames == Strings({"A", "a", " "}, MaxCreateNameLen)

StoreCreateNamed == \E name \in CreateNames :
    /\ last.saves < MaxCreates
    /\ LET r == create_project(fs, now, name) IN
       /\ fs' = r.fs
       /\ now' = r.now
       /\ mem' = fs
       /\ last' = [last EXCEPT !.op = "create", !.name = name, !.status = r.status,
                               !.ret = r.ret, !.saves = @ + 1]
    /\ prev' = last

StoreLoadNamed == \E name \in CreateNames :
    /\ last.loads < MaxLoads
    /\ LET r == load_project(fs, name) IN
       /\ last' = [last EXCEPT !.op = "load", !.name = name, !.status = r.status,
                               !.ret = r.ret, !.loads = @ + 1]
    /\ prev' = last
    /\ UNCHANGED <<fs, now, mem>>

SpecCreate == StoreInit /\ [][StoreCreateNamed \/ StoreLoadNamed]_vars

\* the projects that exist: a directory that holds its state file
Projects(fsys) == {d \in DOMAIN fsys : PathExists(fsys, StatePath(d))}

\* C8: create fails with AlreadyExists when a project exists whose display name
\* differs from the requested one only in letter case or in leading and trailing
\* whitespace.  (mem is the file system before the request.)
C8_CaseAndSpaceCollide ==
    (last.op = "create" /\ \E d \in Projects(mem) : lower(strip(d)) = lower(strip(last.name))) =>
        last.status = "FileExistsError"

\* C11: create with an empty or whitespace-only name fails with an invalid-name
\* error and leaves the file system as it was; create with any other name for
\* which no document file resolves stores a document with the default concept,
\* characters, script and pre-production and returns it, last_saved set.
C11_CreateBlankRefusedElseDefaults ==
    last.op = "create" =>
        IF strip(last.name) = <<>>
        THEN last.status = "ValueError" /\ fs = mem
        ELSE ~PathExists(mem, StatePath(strip(last.name))) =>
                /\ last.status = "ok"
                /\ last.ret.dict["concept"] = D(DEFAULT_CONCEPT)
                /\ last.ret.dict["characters"] = D(EmptyMap)
                /\ last.ret.dict["script"] = D(DEFAULT_SCRIPT)
                /\ last.ret.dict["pre_production"] = D(DEFAULT_PRE_PRODUCTION)
                /\ last.ret.dict["current_phase"] = DEFAULT_PROJECT_STATE["current_phase"]
                /\ "ts" \in DOMAIN last.ret.dict["last_saved"]
                /\ PathExists(fs, StatePath(strip(last.name)))
                /\ ReadFile(fs, StatePath(strip(last.name))) = last.ret
                /\ \A d \in DOMAIN mem : d \in DOMAIN fs /\ fs[d] = mem[d]

\* a whitespace-only name was refused, then a padded name was created
C11_Witness ==
    /\ prev.op = "create" /\ prev.name = <<" ", " ">> /\ prev.status = "ValueError"
    /\ last.op = "create" /\ last.name = <<" ", "A">> /\ last.status = "ok"
    /\ DOMAIN fs = {<<"A">>}

(***************************************************************************)
(* Listing and deleting projects (SpecList).  mem tells whether the storage *)
(* root exists; it can be removed from outside, and every makedirs of a     *)
(* project directory makes it again.                                        *)
(***************************************************************************)
ListNames == {<<"a">>, <<"B">>, <<"a", " ">>}

\* delete and load are also asked for the empty name
LookupNames == ListNames \cup {<<>>}

\* documents handed to save_project: a default document, and one whose log is
\* null, on which the save fails after the directory was made
SaveDocs(name) ==
    {D(Put(DEFAULT_PROJECT_STATE, "project_name", S(name))),
     D(Put(Put(DEFAULT_PROJECT_STATE, "project_name", S(name)), "log", Null))}

ListIdle == [op |-> "none", name |-> <<>>, status |-> "none", ret |-> Null, pre |-> <<>>, n |-> 0]

ListInit ==
    /\ fs = <<>>
    /\ now = 1
    /\ mem = TRUE
    /\ last = ListIdle
    /\ prev = ListIdle

\* one call of the store: r is its result
ListStep(op, name, r) ==
    /\ last.n < MaxListOps
    /\ last' = [op |-> op, name |-> name, status |-> r.status, ret |-> r.ret, pre |-> fs,
                n |-> last.n + 1]
    /\ prev' = last

ListCreate == \E name \in ListNames :
    LET r == create_project(fs, now, name) IN
    /\ ListStep("create", name, r)
    /\ fs' = r.fs
    /\ now' = r.now
    /\ mem' = (mem \/ DOMAIN r.fs # {})

ListSave == \E name \in ListNames : \E doc \in SaveDocs(name) :
    LET r == save_project(fs, now, doc) IN
    /\ ListStep("save", name, r)
    /\ fs' = r.fs
    /\ now' = r.now
    /\ mem' = (mem \/ DOMAIN r.fs # {})

ListDelete == \E name \in LookupNames :
    LET r == delete_project(fs, name) IN
    /\ ListStep("delete", name, r)
    /\ fs' = r.fs
    /\ UNCHANGED <<now, mem>>

ListLoad == \E name \in LookupNames :
    /\ ListStep("load", name, load_project(fs, name))
    /\ UNCHANGED <<fs, now, mem>>

ListProjects ==
    /\ ListStep("list", <<>>, [status |-> "ok", ret |-> get_project_list(mem, fs)])
    /\ UNCHANGED <<fs, now, mem>>

\* the storage root is removed from outside the program
RemoveRoot ==
    /\ mem
    /\ last.n < MaxListOps
    /\ fs' = <<>>
    /\ mem' = FALSE
    /\ last' = [last EXCEPT !.op = "rmroot", !.name = <<>>, !.status = "ok", !.ret = Null,
                            !.pre = fs, !.n = @ + 1]
    /\ prev' = last
    /\ UNCHANGED now

ListNext == ListCreate \/ ListSave \/ ListDelete \/ ListLoad \/ ListProjects \/ RemoveRoot

SpecList == ListInit /\ [][ListNext]_vars

\* the index i of a name in a listing, 0 when it is not listed
Listed(listing, name) == \E i \in 1..Len(listing) : listing[i] = name

\* C14: list returns the names of the directories that hold their correctly
\* named document file, each once, in ascending order; it returns the empty
\* sequence when the storage root is absent.
C14_ListIsSortedVisibleProjects ==
    last.op = "list" =>
        /\ \A d \in DOMAIN fs : Listed(last.ret, d) <=> PathExists(fs, StatePath(d))
        /\ \A i \in 1..Len(last.ret) : last.ret[i] \in DOMAIN fs
        /\ \A i, j \in 1..Len(last.ret) : i < j => StrLess(last.ret[i], last.ret[j])
        /\ ~mem => last.ret = <<>>

\* three directories, one of them without its document file: two names listed,
\* the upper-case one first
C14_Witness ==
    /\ last.op = "list"
    /\ DOMAIN fs = ListNames
    /\ ~PathExists(fs, StatePath(<<"a", " ">>))
    /\ last.ret = <<<<"B">>, <<"a">>>>

\* the root was removed and list answered the empty sequence
C14_WitnessRootAbsent ==
    /\ last.op = "list" /\ ~mem /\ prev.op = "rmroot" /\ prev.pre # <<>>
    /\ last.ret = <<>>

DeletedBefore == prev.op = "delete" /\ prev.status = "ok" /\ prev.ret = TRUE

\* C15: delete of a name that has a directory removes the directory and answers
\* true; right after it, load of the name fails with NotFound, list does not hold
\* the name and create of the name stores a fresh default document.  delete of a
\* name that has no directory answers false, raises nothing, changes nothing.
C15_DeleteThenGone ==
    /\ (last.op = "delete" /\ last.name # <<>>) =>
          /\ last.status = "ok"
          /\ IF last.name \in DOMAIN last.pre
             THEN /\ last.ret = TRUE
                  /\ DOMAIN fs = DOMAIN last.pre \ {last.name}
                  /\ \A d \in DOMAIN fs : fs[d] = last.pre[d]
             ELSE last.ret = FALSE /\ fs = last.pre
    /\ (DeletedBefore /\ last.op = "load" /\ last.name = prev.name) => last.status = "NotFound"
    /\ (DeletedBefore /\ last.op = "list") => ~Listed(last.ret, prev.name)
    /\ (DeletedBefore /\ last.op = "create" /\ last.name = prev.name) =>
          /\ last.status = "ok"
          /\ last.ret.dict["concept"] = D(DEFAULT_CONCEPT)
          /\ last.ret.dict["characters"] = D(EmptyMap)
          /\ LogOf(last.ret)[1].msg = "created" /\ Len(LogOf(last.ret)) = 2

(***************************************************************************)
(* app.py: the Streamlit client.  Its mirror of the project document is    *)
(* st.session_state.project_state; every handler calls the API and patches *)
(* the mirror with the answer.  A handler answers the file system and the  *)
(* clock the server leaves, the mirror, and the answer of its first call.  *)
(***************************************************************************)
\* the placeholder state before anything is loaded
UIState ==
    D([project_name |-> S(<<"Untitled">>), cleaned_name |-> S(<<"untitled">>),
       current_phase |-> S(<<"Concept">>), concept |-> D(EmptyMap), characters |-> D(EmptyMap),
       script |-> D(EmptyMap),
       pre_production |-> D([moodboard_images |-> L(<<>>), storyboard_images |-> L(<<>>)]),
       last_saved |-> Null, log |-> L(<<Msg("ui", <<>>, 0)>>)])

ApiError == D([error |-> S(<<"API Error">>), detail |-> S(<<"detail">>)])

\* call_api: raise_for_status turns every 4xx and 5xx answer into the error mapping
call_api(o, body) == IF o.http >= 400 THEN ApiError ELSE body

\* "error" in response_data
ErrorInResponse(response_data) == "error" \in DOMAIN response_data.dict

\* get_state()['project_name']
MirrorName(m) == m.dict["project_name"].str

\* the tabs are shown once a project is open
ProjectOpen(m) == m.dict["project_name"] # S(<<"Untitled">>)

\* get_state().get(k1, {}).get(k2, "")
MirrorGet(m, k1, k2) == Get(Get(m.dict, k1, D(EmptyMap)).dict, k2, S(<<>>))

Handled(o, response_data, mirror, status) ==
    [fs |-> o.fs, now |-> o.now, mirror |-> mirror, status |-> status, http |-> o.http,
     resp |-> response_data]

\* a handler that patches the mirror when the answer is no error
Patched(o, response_data, m, patched) ==
    IF ErrorInResponse(response_data) THEN Handled(o, response_data, m, "failed")
    ELSE Handled(o, response_data, patched, "ok")

\* load_project_api: the answer replaces the mirror
load_project_api(fsys, t, m, project_name) ==
    LET answered(o) ==
            LET response_data == call_api(o, o.ret)
                pp == Get(response_data.dict, "pre_production", D(EmptyMap))
                images == [moodboard_images |-> Get(pp.dict, "moodboard_images", L(<<>>)),
                           storyboard_images |-> Get(pp.dict, "storyboard_images", L(<<>>))]
            IN  Patched(o, response_data, m,
                        D(Put(response_data.dict, "pre_production",
                              D(Put(Put(pp.dict, "moodboard_images", images.moodboard_images),
                                    "storyboard_images", images.storyboard_images)))))
    IN  answered(ep_load_project(fsys, t, project_name))

\* create_project_api: the answer replaces the mirror, the image lists are emptied
create_project_api(fsys, t, m, new_project_name) ==
    LET answered(o) ==
            LET response_data == call_api(o, o.ret)
                pp == Get(response_data.dict, "pre_production", D(EmptyMap))
            IN  Patched(o, response_data, m,
                        D(Put(response_data.dict, "pre_production",
                              D(Put(Put(pp.dict, "moodboard_images", L(<<>>)),
                                    "storyboard_images", L(<<>>))))))
    IN  answered(ep_create_project(fsys, t, new_project_name))

\* save_project_api: the whole mirror is the body; the answer replaces the mirror
save_project_api(fsys, t, m) ==
    LET answered(o) == Patched(o, call_api(o, o.ret), m, call_api(o, o.ret))
    IN  answered(ep_save_project(fsys, t, MirrorName(m), ProjectState(m.dict)))

\* btn_gen_concepts_ui
btn_gen_concepts(fsys, t, m, seed_idea_val, groq) ==
    LET answered(o) ==
            LET response_data == call_api(o, D([text |-> o.ret]))
            IN  Patched(o, response_data, m,
                        IF "concept" \in DOMAIN m.dict
                        THEN SetField(m, "concept", "generated_concepts_md",
                                      response_data.dict["text"])
                        ELSE m)
    IN  answered(ep_generate_initial_concepts(fsys, t, MirrorName(m), seed_idea_val, groq))

\* btn_gen_synopsis_ui: ui holds the four text inputs, the payload the non-empty ones
btn_gen_synopsis(fsys, t, m, ui, groq) ==
    LET payload == [k \in {x \in DOMAIN ui : Truthy(ui[x])} |-> ui[k]]
        request == [k \in DOMAIN ui |-> IF k \in DOMAIN payload THEN payload[k] ELSE Null]
        given(c, k, ck) == IF k \in DOMAIN payload THEN Put(c, ck, payload[k]) ELSE c
        chosen == given(given(given(given(m.dict["concept"].dict,
                                          "logline", "chosen_logline"),
                                    "framework", "chosen_framework"),
                              "theme", "chosen_theme"),
                        "conflict", "chosen_conflict")
        written(text) ==
            Put(Put(chosen, "synopsis_md", text), "final_synopsis",
                IF Contains(text.str, TwistsMarker) THEN S(BeforeMarker(text.str)) ELSE text)
        answered(o) ==
            LET response_data == call_api(o, D([text |-> o.ret]))
            IN  Patched(o, response_data, m,
                        IF "concept" \in DOMAIN m.dict
                        THEN D(Put(m.dict, "concept", D(written(response_data.dict["text"]))))
                        ELSE m)
    IN  answered(ep_generate_synopsis(fsys, t, MirrorName(m), request, groq))

\* btn_save_char_ui: the answer is the character record
btn_save_char(fsys, t, m, name_val, update) ==
    LET chars == Get(m.dict, "characters", D(EmptyMap))
        answered(o) ==
            LET response_data == call_api(o, o.ret)
            IN  Patched(o, response_data, m,
                        D(Put(m.dict, "characters",
                              D(Put(chars.dict, name_val, response_data)))))
    IN  answered(ep_save_character_profile(fsys, t, MirrorName(m), name_val, update))

\* a handler that writes the text of the answer in one field of the active character
CharacterTextPatched(o, m, char_name_active, field) ==
    LET response_data == call_api(o, D([text |-> o.ret]))
        chars == Get(m.dict, "characters", D(EmptyMap)).dict
    IN  Patched(o, response_data, m,
                IF "characters" \in DOMAIN m.dict /\ char_name_active \in DOMAIN chars
                THEN D(Put(m.dict, "characters",
                           D(Put(chars, char_name_active,
                                 D(Put(chars[char_name_active].dict, field,
                                       response_data.dict["text"]))))))
                ELSE m)

\* btn_gen_arc_ui
btn_gen_arc(fsys, t, m, char_name_active, groq) ==
    CharacterTextPatched(ep_generate_character_arc(fsys, t, MirrorName(m), char_name_active, groq),
                         m, char_name_active, "arc_description")

\* btn_gen_rels_ui
btn_gen_rels(fsys, t, m, char_name_active, groq) ==
    CharacterTextPatched(ep_suggest_relationships(fsys, t, MirrorName(m), char_name_active, groq),
                         m, char_name_active, "relationship_suggestions")

\* a handler that writes the text of the answer in one field of script
ScriptTextPatched(o, m, field) ==
    LET response_data == call_api(o, D([text |-> o.ret])) IN
    Patched(o, response_data, m,
            IF "script" \in DOMAIN m.dict
            THEN SetField(m, "script", field, response_data.dict["text"]) ELSE m)

\* btn_gen_outline_ui
btn_gen_outline(fsys, t, m, groq) ==
    ScriptTextPatched(ep_generate_script_outline(fsys, t, MirrorName(m), groq), m, "outline_md")

\* btn_analyze_ui
btn_analyze(fsys, t, m, groq) ==
    ScriptTextPatched(ep_analyze_script_issues(fsys, t, MirrorName(m), groq), m, "analysis_md")

btn_save_full_script_optimistic(fsys, t, m, script_to_save) ==
    LET written == SetField(m, "script", "full_script_content", script_to_save)
        answered(o) ==
            LET response_data == call_api(o, D([message |-> o.ret]))
            IN  IF ErrorInResponse(response_data)
                THEN Handled(o, response_data, written, "failed")
                ELSE Handled(o, response_data, written, "ok")
    IN  answered(ep_update_full_script(fsys, t, MirrorName(m), script_to_save))

\* btn_save_full_script_ui: the answer is a message, the mirror takes the text sent
btn_save_full_script(fsys, t, m, script_to_save) ==
    LET answered(o) ==
            Patched(o, call_api(o, D([message |-> o.ret])), m,
                    SetField(m, "script", "full_script_content", script_to_save))
    IN  answered(ep_update_full_script(fsys, t, MirrorName(m), script_to_save))

ImagesThenNoReload(o, m, images_key) ==
    LET response_data == call_api(o, D([parts |-> o.ret])) IN
    Patched(o, response_data, m,
            IF "pre_production" \in DOMAIN m.dict
            THEN SetField(m, "pre_production", images_key, response_data.dict["parts"]) ELSE m)

\* the tail shared by btn_gen_mood_ui and btn_gen_sb_ui: the answer holds the image
\* parts; they are written in the mirror, then the project is loaded again
ImagesThenReload(o, m, images_key) ==
    LET response_data == call_api(o, D([parts |-> o.ret])) IN
    IF ErrorInResponse(response_data) THEN Handled(o, response_data, m, "failed")
    ELSE IF "pre_production" \notin DOMAIN m.dict THEN Handled(o, response_data, m, "ok")
    ELSE LET shown == SetField(m, "pre_production", images_key, response_data.dict["parts"])
             reloaded(again) ==
                 [fs |-> again.fs, now |-> again.now, mirror |-> again.mirror,
                  status |-> IF again.status = "ok" THEN "ok" ELSE "reload-failed",
                  http |-> o.http, resp |-> response_data]
         IN  reloaded(load_project_api(o.fs, o.now, shown, MirrorName(m)))

\* btn_gen_mood_ui
btn_gen_mood(fsys, t, m, groq, image_parts) ==
    ImagesThenReload(ep_generate_moodboard(fsys, t, MirrorName(m), groq, image_parts),
                     m, "moodboard_images")

\* btn_gen_sb_ui
btn_gen_sb(fsys, t, m, scene_text_val, groq, image_parts) ==
    ImagesThenReload(ep_generate_storyboard(fsys, t, MirrorName(m), scene_text_val, groq, image_parts),
                     m, "storyboard_images")

(***************************************************************************)
(* The client and the server (SpecClient): mem is the mirror.  One action   *)
(* per button; a button that the page disables, or a branch that warns      *)
(* without calling the API, is a guard.  Another client may delete the      *)
(* project.                                                                 *)
(***************************************************************************)
ClientIdle == [op |-> "none", status |-> "none", http |-> 0, pre |-> Null, fsPre |-> <<>>,
               resp |-> Null, arg |-> Null, groq |-> Null, n |-> 0]

ClientInit ==
    /\ fs = <<>>
    /\ now = 1
    /\ mem = UIState
    /\ last = ClientIdle
    /\ prev = ClientIdle

\* one button pressed: r is what its handler answers
Pressed(op, r, arg, groq) ==
    /\ last.n < MaxClientOps
    /\ fs' = r.fs
    /\ now' = r.now
    /\ mem' = r.mirror
    /\ last' = [op |-> op, status |-> r.status, http |-> r.http, pre |-> mem, fsPre |-> fs,
                resp |-> r.resp, arg |-> arg, groq |-> groq, n |-> last.n + 1]
    /\ UNCHANGED prev

\* btn_load_ui: the project is picked among the listed ones
PressLoad == \E name \in ProjectNames :
    /\ \E i \in 1..Len(get_project_list(TRUE, fs)) : get_project_list(TRUE, fs)[i] = name
    /\ Pressed("load", load_project_api(fs, now, mem, name), S(name), Null)

\* btn_create_ui
PressCreate == \E name \in ProjectNames :
    Pressed("create", create_project_api(fs, now, mem, name), S(name), Null)

\* btn_save_ui
PressSave ==
    /\ ProjectOpen(mem)
    /\ Pressed("save", save_project_api(fs, now, mem), Null, Null)

PressGenerateConcepts == \E seed \in SeedIdeas, groq \in GroqResults :
    /\ ProjectOpen(mem)
    /\ Truthy(seed)
    /\ Pressed("generate-concepts", btn_gen_concepts(fs, now, mem, seed, groq), seed, groq)

PressGenerateSynopsis == \E ui \in SynopsisRequests, groq \in GroqResults :
    /\ ProjectOpen(mem)
    /\ \/ Truthy(ui.logline) \/ Truthy(ui.theme)
       \/ Truthy(MirrorGet(mem, "concept", "chosen_logline"))
       \/ Truthy(MirrorGet(mem, "concept", "chosen_theme"))
    /\ Pressed("generate-synopsis", btn_gen_synopsis(fs, now, mem, ui, groq), D(ui), groq)

PressSaveCharacter == \E c \in CharNames, update \in CharacterUpdates :
    /\ ProjectOpen(mem)
    /\ Truthy(update.role)
    /\ Pressed("save-character", btn_save_char(fs, now, mem, c, update), S(<<c>>), Null)

PressGenerateArc == \E c \in CharNames, groq \in GroqResults :
    /\ ProjectOpen(mem)
    /\ c \in DOMAIN Get(mem.dict, "characters", D(EmptyMap)).dict
    /\ LET profile == Get(mem.dict["characters"].dict[c].dict, "profile", D(EmptyMap)).dict
       IN  Truthy(Get(profile, "motivation", Null)) /\ Truthy(Get(profile, "flaw", Null))
    /\ Pressed("generate-arc", btn_gen_arc(fs, now, mem, c, groq), S(<<c>>), groq)

PressSuggestRelationships == \E c \in CharNames, groq \in GroqResults :
    /\ ProjectOpen(mem)
    /\ c \in DOMAIN Get(mem.dict, "characters", D(EmptyMap)).dict
    /\ Cardinality(DOMAIN mem.dict["characters"].dict) > 1
    /\ Pressed("suggest-relationships", btn_gen_rels(fs, now, mem, c, groq), S(<<c>>), groq)

PressGenerateOutline == \E groq \in GroqResults :
    /\ ProjectOpen(mem)
    /\ \/ Truthy(MirrorGet(mem, "concept", "final_synopsis"))
       \/ Truthy(MirrorGet(mem, "concept", "chosen_logline"))
    /\ Pressed("generate-outline", btn_gen_outline(fs, now, mem, groq), Null, groq)

PressSaveFullScript == \E content \in ScriptContents :
    /\ ProjectOpen(mem)
    /\ Pressed("update-full-script", btn_save_full_script(fs, now, mem, content), content, Null)

PressAnalyze == \E groq \in GroqResults :
    /\ ProjectOpen(mem)
    /\ Len(MirrorGet(mem, "script", "full_script_content").str) >= MinScriptLen
    /\ Pressed("analyze-issues", btn_analyze(fs, now, mem, groq), Null, groq)

PressGenerateMoodboard == \E groq \in GroqResults : \E images \in ImagesAfter(groq) :
    /\ ProjectOpen(mem)
    /\ \/ Truthy(MirrorGet(mem, "concept", "chosen_theme"))
       \/ Truthy(MirrorGet(mem, "concept", "seed_idea"))
       \/ Truthy(MirrorGet(mem, "concept", "final_synopsis"))
    /\ Pressed("generate-moodboard", btn_gen_mood(fs, now, mem, groq, images), images, groq)

PressGenerateStoryboard ==
    \E scene \in SceneTexts, groq \in GroqResults : \E images \in ImagesAfter(groq) :
        /\ ProjectOpen(mem)
        /\ Len(strip(scene.str)) >= MinSceneLen
        /\ Pressed("generate-storyboard", btn_gen_sb(fs, now, mem, scene, groq, images), images, groq)

\* DELETE /projects/{name} sent by another client
DeleteRequest == \E name \in ProjectNames :
    LET deleted(o) ==
            /\ fs' = o.fs
            /\ last' = [op |-> "delete", status |-> "external", http |-> o.http, pre |-> mem,
                        fsPre |-> fs, resp |-> Null, arg |-> S(name), groq |-> Null,
                        n |-> last.n + 1]
    IN
    /\ last.n < MaxClientOps
    /\ deleted(ep_delete_project(fs, now, name))
    /\ UNCHANGED <<now, mem, prev>>

ClientNext ==
    \/ PressLoad
    \/ PressCreate
    \/ PressSave
    \/ PressGenerateConcepts
    \/ PressGenerateSynopsis
    \/ PressSaveCharacter
    \/ PressGenerateArc
    \/ PressSuggestRelationships
    \/ PressGenerateOutline
    \/ PressSaveFullScript
    \/ PressAnalyze
    \/ PressGenerateMoodboard
    \/ PressGenerateStoryboard
    \/ DeleteRequest

SpecClient == ClientInit /\ [][ClientNext]_vars

\* the document the server holds for the project of the mirror
ServerDoc == ReadFile(fs, StatePath(MirrorName(mem)))

ClientOps == SubtreeOps \cup {"load", "create", "save"}

\* C17: when the API answers a button with an error, the mirror is what it was
\* before the button was pressed.
C17_FailureKeepsMirror ==
    (last.op \in ClientOps /\ last.http >= 400) =>
        /\ last.status = "failed"
        /\ mem = last.pre

\* a generation failed on the server while the mirror held a project with content
C17_Witness ==
    /\ last.op = "generate-outline" /\ last.http = 500
    /\ ProjectOpen(mem)
    /\ Truthy(MirrorGet(mem, "concept", "synopsis_md"))
    /\ PathExists(fs, StatePath(MirrorName(mem)))

FragmentOps == SubtreeOps \ {"generate-moodboard", "generate-storyboard"}

\* C18: after a successful operation that answers a fragment, every field the
\* server wrote for the operation has the same value in the mirror and in the
\* stored document.
C18_FragmentsMirrored ==
    (last.op \in FragmentOps /\ last.status = "ok" /\ fs # last.fsPre) =>
        /\ \A w \in WrittenFields(last.op) :
               MirrorGet(mem, w[1], w[2]) = ServerDoc.dict[w[1]].dict[w[2]]
        /\ WrittenCharacterFields(last.op) # {} =>
               LET c == last.arg.str[1] IN
               /\ c \in DOMAIN mem.dict["characters"].dict
               /\ \A f \in WrittenCharacterFields(last.op) :
                      mem.dict["characters"].dict[c].dict[f]
                          = ServerDoc.dict["characters"].dict[c].dict[f]

\* C19: after a successful load, create or save the mirror is the document the
\* server answered; after a successful generate-moodboard or generate-storyboard
\* the text and the images of pre_production in the mirror are the stored ones.
C19_FullDocumentsReplaceMirror ==
    /\ (last.op \in {"load", "create", "save"} /\ last.status = "ok") => mem = last.resp
    /\ (last.op \in {"generate-moodboard", "generate-storyboard"} /\ last.http < 400) =>
          /\ last.status = "ok"
          /\ mem.dict["pre_production"] = ServerDoc.dict["pre_production"]
          /\ \A k \in DOMAIN ServerDoc.dict \ {"log"} : mem.dict[k] = ServerDoc.dict[k]

\* generate-moodboard succeeded: new text ideas and images, neither in the mirror before
C19_Witness ==
    /\ last.op = "generate-moodboard" /\ last.status = "ok"
    /\ mem.dict["pre_production"].dict["moodboard_ideas_md"] = last.groq
    /\ last.pre.dict["pre_production"].dict["moodboard_ideas_md"] # last.groq
    /\ mem.dict["pre_production"].dict["moodboard_images"] = L(<<Part("text"), Part("image/png")>>)

\* a save succeeded after another client had deleted the project
C19_WitnessSave ==
    /\ last.op = "save" /\ last.status = "ok"
    /\ mem.dict["last_saved"] = TS(now - 1)
    /\ mem # last.pre

\* C21: after a successful generate-synopsis, final_synopsis in the stored document
\* is the generated text cut before the first "### Potential Twists" marker and
\* trimmed of surrounding whitespace when the text holds the marker, and the
\* generated text itself when it does not; the mirror holds the same value.
C21_FinalSynopsisCutAtMarker ==
    (last.op = "generate-synopsis" /\ last.status = "ok") =>
        LET text == last.resp.dict["text"].str
            marks == {i \in 1..Len(text) : text[i] = TwistsMarker}
            cut == SubSeq(text, 1, (CHOOSE i \in marks : \A j \in marks : i <= j) - 1)
            expected == IF marks = {} THEN text ELSE strip(cut)
        IN  /\ last.resp.dict["text"] = last.groq
            /\ ServerDoc.dict["concept"].dict["final_synopsis"] = S(expected)
            /\ ServerDoc.dict["concept"].dict["synopsis_md"] = S(text)
            /\ mem.dict["concept"].dict["final_synopsis"] = S(expected)

\* the generated text held the marker after a line break: the final synopsis is shorter
C21_Witness ==
    /\ last.op = "generate-synopsis" /\ last.status = "ok"
    /\ Contains(last.groq.str, TwistsMarker)
    /\ mem.dict["concept"].dict["final_synopsis"] = S(<<"p", "l", "o", "t">>)
    /\ ServerDoc.dict["concept"].dict["final_synopsis"] = S(<<"p", "l", "o", "t">>)

\* the generated text held no marker
C21_WitnessNoMarker ==
    /\ last.op = "generate-synopsis" /\ last.status = "ok"
    /\ ~Contains(last.groq.str, TwistsMarker)
    /\ mem.dict["concept"].dict["final_synopsis"] = last.groq

ContentSubtrees == {"concept", "characters", "script", "pre_production"}

C35_DeleteMissingIsNotFound ==
    (last.op = "delete" /\ ~PathExists(last.fsPre, StatePath(last.arg.str))) =>
        /\ last.http = 404
        /\ fs = last.fsPre

(***************************************************************************)
(* Name derivation applied twice (SpecName).                               *)
(***************************************************************************)
Names == Strings(Chars, MaxNameLen)

NameIdle == [op |-> "none", status |-> "none", arg |-> <<>>, ret |-> <<>>, n |-> 0]

NameInit ==
    /\ fs = <<>>
    /\ now = 1
    /\ mem \in {S(n) : n \in Names}
    /\ last = NameIdle
    /\ prev = NameIdle

\* the argument of the next application: the given name, then the derived one
NameArg == IF last.n = 0 THEN mem.str ELSE last.ret

\* _get_state_file_path derives the file name; it raises ValueError on the empty name
DeriveFileName ==
    /\ last.n < 2
    /\ last.op \in {"none", "file"}
    /\ last.status # "ValueError"
    /\ last' = [op |-> "file", status |-> IF NameArg = <<>> THEN "ValueError" ELSE "ok",
                arg |-> NameArg, ret |-> IF NameArg = <<>> THEN <<>> ELSE StatePath(NameArg).file,
                n |-> last.n + 1]
    /\ UNCHANGED <<fs, now, mem, prev>>

\* the ProjectState validator derives cleaned_name
ValidateCleanedName ==
    /\ last.n < 2
    /\ last.op \in {"none", "validator"}
    /\ last' = [op |-> "validator", status |-> "ok", arg |-> NameArg,
                ret |-> generate_cleaned_name(Null, S(NameArg)).str, n |-> last.n + 1]
    /\ UNCHANGED <<fs, now, mem, prev>>

SpecName == NameInit /\ [][DeriveFileName \/ ValidateCleanedName]_vars

MaxRetryCount == 3
DefaultInitialDelay == 5

\* max_retries of the call: none, negative, and up to the default and beyond
RetryCounts == -1..MaxRetryCount

InitialDelays == {1, DefaultInitialDelay}

\* what one chat.completions.create call does: a message with content, with empty
\* or missing content, a response without a message, or one of the exceptions
ApiOutcomes ==
    {[kind |-> "message", content |-> c] : c \in {S(<<"t", "e", "x", "t">>), S(<<>>), Null}}
        \cup {[kind |-> k, content |-> Null] :
                 k \in {"no_message", "RateLimitError", "APIError", "Exception"}}

\* the frame after lines 26-30: returned at once without a client, else before the loop
call_groq_enter(configured, max_retries, initial_delay) ==
    LET f == [pc |-> "loop", max_retries |-> max_retries, initial_delay |-> initial_delay,
              delay |-> initial_delay, last_error |-> "None", attempt |-> 0,
              attempt_bound |-> FALSE, outcomes |-> <<>>, waits |-> <<>>, ret |-> Null]
    IN  IF ~configured
        THEN [f EXCEPT !.pc = "returned", !.ret = S(<<"Error:", "api key not configured">>)]
        ELSE [f EXCEPT !.pc = IF 0 < max_retries THEN "loop" ELSE "after"]

\* a variant that tries again after a general API error
call_groq_attempt_retries_api_errors(f, o) ==
    LET attempt == IF f.attempt_bound THEN f.attempt + 1 ELSE 0
        g == [f EXCEPT !.attempt = attempt, !.attempt_bound = TRUE,
                       !.outcomes = Append(@, o.kind)]
    IN  IF o.kind = "message"
        THEN [g EXCEPT !.pc = "returned",
                       !.ret = IF Truthy(o.content) THEN o.content
                               ELSE S(<<"Error:", "empty response">>)]
        ELSE [g EXCEPT !.pc = IF attempt + 1 < f.max_retries THEN "loop" ELSE "after",
                       !.last_error = o.kind]

\* one pass of the for loop, lines 31-67: attempt is bound to the next index, the
\* API is called and does o
call_groq_attempt(f, o) ==
    LET attempt == IF f.attempt_bound THEN f.attempt + 1 ELSE 0
        g == [f EXCEPT !.attempt = attempt, !.attempt_bound = TRUE,
                       !.outcomes = Append(@, o.kind)]
    IN  CASE o.kind = "message" ->
                [g EXCEPT !.pc = "returned",
                          !.ret = IF Truthy(o.content) THEN o.content
                                  ELSE S(<<"Error:", "empty response">>)]
          [] o.kind = "no_message" ->
                [g EXCEPT !.pc = "after", !.last_error = "invalid structure"]
          [] o.kind = "RateLimitError" ->
                [g EXCEPT !.pc = IF attempt + 1 < f.max_retries THEN "loop" ELSE "after",
                          !.last_error = o.kind,
                          !.waits = Append(@, f.delay),
                          !.delay = f.delay * 2]
          [] OTHER -> [g EXCEPT !.pc = "after", !.last_error = o.kind]

\* lines 70-74: reading attempt raises UnboundLocalError when the loop never ran
call_groq_after(f) ==
    IF ~f.attempt_bound
    THEN [f EXCEPT !.pc = "raised", !.ret = Raised("UnboundLocalError")]
    ELSE [f EXCEPT !.pc = "returned",
                   !.ret = IF f.attempt = f.max_retries - 1 /\ f.last_error = "RateLimitError"
                           THEN S(<<"Error:", "exceeded maximum retries">>)
                           ELSE S(<<"Error:", "could not get response">>)]

InCall == "pc" \in DOMAIN mem

GroqInit ==
    /\ fs = <<>>
    /\ now = 1
    /\ mem = Null
    /\ last = Idle
    /\ prev = Idle

GroqCall == \E configured \in BOOLEAN, max_retries \in RetryCounts, initial_delay \in InitialDelays :
    /\ ~InCall
    /\ mem' = call_groq_enter(configured, max_retries, initial_delay)
    /\ UNCHANGED <<fs, now, last, prev>>

\* time.sleep(delay) runs inside the pass that met the rate limit
GroqAttempt == \E o \in ApiOutcomes :
    /\ InCall /\ mem.pc = "loop"
    /\ mem' = call_groq_attempt(mem, o)
    /\ now' = IF o.kind = "RateLimitError" THEN now + mem.delay ELSE now
    /\ UNCHANGED <<fs, last, prev>>

GroqAfter ==
    /\ InCall /\ mem.pc = "after"
    /\ mem' = call_groq_after(mem)
    /\ UNCHANGED <<fs, now, last, prev>>

GroqNext == GroqCall \/ GroqAttempt \/ GroqAfter

SpecGroq == GroqInit /\ [][GroqNext]_vars

RECURSIVE Pow2(_)
Pow2(k) == IF k = 0 THEN 1 ELSE 2 * Pow2(k - 1)

\* C33: call_groq makes at most max_retries API attempts; each attempt but the
\* last one made ended in a rate-limit failure, and the k-th retry comes after a
\* wait of initial_delay * 2^(k-1) seconds; after any other failure none follows.
C33_RetriesOnlyAfterRateLimitWithBackoff ==
    InCall =>
        /\ Len(mem.outcomes) <= (IF mem.max_retries > 0 THEN mem.max_retries ELSE 0)
        /\ \A i \in 1..(Len(mem.outcomes) - 1) : mem.outcomes[i] = "RateLimitError"
        /\ Len(mem.waits) >= Len(mem.outcomes) - 1
        /\ \A k \in 1..(Len(mem.outcomes) - 1) : mem.waits[k] = mem.initial_delay * Pow2(k - 1)
        /\ (mem.pc # "loop" /\ mem.outcomes # <<>>
               /\ mem.outcomes[Len(mem.outcomes)] # "RateLimitError") =>
              Len(mem.waits) = Len(mem.outcomes) - 1

\* with the defaults: two rate-limit failures, waits of 5 and 10 seconds, then content
C33_Witness ==
    /\ InCall /\ mem.pc = "returned"
    /\ mem.max_retries = MaxRetryCount /\ mem.initial_delay = DefaultInitialDelay
    /\ mem.outcomes = <<"RateLimitError", "RateLimitError", "message">>
    /\ mem.waits = <<DefaultInitialDelay, 2 * DefaultInitialDelay>>
    /\ mem.ret = S(<<"t", "e", "x", "t">>)

\* a general API error on the first attempt ended the call with attempts to spare
C33_WitnessNoRetry ==
    /\ InCall /\ mem.pc = "returned"
    /\ mem.max_retries = MaxRetryCount
    /\ mem.outcomes = <<"APIError">>
    /\ BeginsWithError(mem.ret)

\* C34: for every max_retries and every sequence of API outcomes, call_groq ends
\* by returning a string, content or a text that begins with "Error:"; it never raises.
C34_ReturnsStringNeverRaises ==
    InCall =>
        /\ mem.pc # "raised"
        /\ mem.pc = "returned" =>
              /\ IsStr(mem.ret)
              /\ BeginsWithError(mem.ret) \/ mem.ret = S(<<"t", "e", "x", "t">>)


(***************************************************************************)
(* The read-only endpoints and the script analysis (SpecAdvisory).         *)
(***************************************************************************)
\* GET .../characters
ep_get_all_characters(fsys, t, name) ==
    LET ld == load_project_state_safe(fsys, name) IN
    IF ld.status # "ok" THEN NotLoaded(ld, fsys, t)
    ELSE Outcome("ok", 200, fsys, t, ld.state.dict["characters"], 0, 0)

\* CharacterCrafterAgent.suggest_profile_elements
agent_suggest_profile_elements(role, genre, theme, groq) ==
    IF ~Truthy(role) THEN Answer(S(<<"Error:", "role">>), 0) ELSE Answer(groq, 1)

\* ScriptSmithAgent.draft_scene
agent_draft_scene(scene_heading, scene_description, character_context, tone, groq) ==
    IF ~Truthy(scene_heading) \/ ~Truthy(scene_description)
    THEN Answer(S(<<"Error:", "heading">>), 0) ELSE Answer(groq, 1)

\* ScriptSmithAgent.refine_dialogue_tone
agent_refine_dialogue_tone(dialogue, target_tone, groq) ==
    IF ~Truthy(dialogue) \/ ~Truthy(target_tone)
    THEN Answer(S(<<"Error:", "dialogue">>), 0) ELSE Answer(groq, 1)

\* ScriptSmithAgent.refine_action_conciseness
agent_refine_action_conciseness(action_line, groq) ==
    IF ~Truthy(action_line) THEN Answer(S(<<"Error:", "action">>), 0) ELSE Answer(groq, 1)

\* the tail of the advisory endpoints: the text is answered and nothing is saved
AdviseOnly(fsys, t, a) ==
    IF Contains(a.text.str, "Error:")
    THEN Outcome("GenerationFailed", 500, fsys, t, a.text, a.calls, 0)
    ELSE Outcome("ok", 200, fsys, t, a.text, a.calls, 0)

\* a variant that saves the loaded state before answering
ep_suggest_character_profile_saves(fsys, t, name, request, groq) ==
    LET ld == load_project_state_safe(fsys, name) IN
    IF ld.status # "ok" THEN NotLoaded(ld, fsys, t)
    ELSE LET a == agent_suggest_profile_elements(request.role,
                      Field(ld.state, "concept", "seed_idea"),
                      Field(ld.state, "concept", "chosen_theme"), groq)
         IN  IF Contains(a.text.str, "Error:")
             THEN Outcome("GenerationFailed", 500, fsys, t, a.text, a.calls, 0)
             ELSE SaveAndReturn(fsys, t, ld.state, a.text, a.calls, 0)

\* POST .../characters/suggest-profile
ep_suggest_character_profile(fsys, t, name, request, groq) ==
    LET ld == load_project_state_safe(fsys, name) IN
    IF ld.status # "ok" THEN NotLoaded(ld, fsys, t)
    ELSE AdviseOnly(fsys, t, agent_suggest_profile_elements(request.role,
                                 Field(ld.state, "concept", "seed_idea"),
                                 Field(ld.state, "concept", "chosen_theme"), groq))

\* POST .../script/draft-scene
ep_draft_scene(fsys, t, name, request, groq) ==
    LET ld == load_project_state_safe(fsys, name) IN
    IF ld.status # "ok" THEN NotLoaded(ld, fsys, t)
    ELSE AdviseOnly(fsys, t, agent_draft_scene(request.scene_heading, request.scene_description,
                                               request.character_context, request.tone, groq))

\* str.lower over the words of an instruction
lowerWord(w) == IF w = "Concise" THEN "concise" ELSE lowerChar(w)

DialogueWords == {"dialogue", "tense", "emotional", "funny", "serious"}

\* POST .../script/refine-text: the instruction picks the agent method
ep_refine_text_snippet(fsys, t, name, request, groq) ==
    LET ld == load_project_state_safe(fsys, name) IN
    IF ld.status # "ok" THEN NotLoaded(ld, fsys, t)
    ELSE LET instruction_lower == [i \in 1..Len(request.instruction.str) |->
                                      lowerWord(request.instruction.str[i])]
         IN  IF \E w \in DialogueWords : Contains(instruction_lower, w)
             THEN AdviseOnly(fsys, t, agent_refine_dialogue_tone(request.text_to_refine,
                                                                 request.instruction, groq))
             ELSE IF Contains(instruction_lower, "concise") \/ Contains(instruction_lower, "action")
             THEN AdviseOnly(fsys, t, agent_refine_action_conciseness(request.text_to_refine, groq))
             ELSE AdviseOnly(fsys, t, agent_refine_dialogue_tone(request.text_to_refine,
                                                                 request.instruction, groq))

\* the request models admit only non-empty role, heading, description, text and instruction
ProfileRequests == {[role |-> S(<<"h", "e", "r", "o">>)]}

DraftRequests ==
    {[scene_heading |-> S(<<"INT.">>), scene_description |-> S(<<"d">>),
      character_context |-> Null, tone |-> S(<<"neutral">>)]}

RefineRequests ==
    {[text_to_refine |-> S(<<"h", "i">>), instruction |-> S(i)] :
        i \in {<<"tense">>, <<"Concise">>, <<"x">>}}

\* a script of n characters that begins with k times "a"
ScriptOf(k, n) == S([i \in 1..n |-> IF i <= k THEN "a" ELSE "x"])

\* scripts of exactly the excerpt length and one character longer
LongScripts == {ScriptOf(1, ExcerptLen), ScriptOf(1, ExcerptLen + 1), ScriptOf(2, ExcerptLen + 1)}

GetAllCharacters == \E name \in ProjectNames :
    Serve("get-characters", name, ep_get_all_characters(fs, now, name), Null, Null, Null)

SuggestProfile == \E name \in ProjectNames, request \in ProfileRequests, groq \in GroqResults :
    Serve("suggest-profile", name, ep_suggest_character_profile(fs, now, name, request, groq),
          groq, Null, Null)

DraftScene == \E name \in ProjectNames, request \in DraftRequests, groq \in GroqResults :
    Serve("draft-scene", name, ep_draft_scene(fs, now, name, request, groq), groq, Null, Null)

RefineText == \E name \in ProjectNames, request \in RefineRequests, groq \in GroqResults :
    Serve("refine-text", name, ep_refine_text_snippet(fs, now, name, request, groq),
          groq, Null, request.instruction)

UpdateLongScript == \E name \in ProjectNames, content \in LongScripts :
    Serve("update-full-script", name, ep_update_full_script(fs, now, name, content),
          Null, Null, Null)

AdvisoryNext ==
    \/ CreateProject
    \/ SaveProject
    \/ LoadProject
    \/ GetAllCharacters
    \/ SuggestProfile
    \/ DraftScene
    \/ RefineText
    \/ UpdateLongScript
    \/ AnalyzeIssues

SpecAdvisory == Init /\ [][AdvisoryNext]_vars

ReadOnlyOps == {"load", "get-characters", "suggest-profile", "draft-scene", "refine-text"}

\* C36: load, get-all-characters, suggest-profile, draft-scene and refine-text leave
\* the stored documents as they were, whether they succeed or fail; the "loaded"
\* log entry of a load is in the returned document only.
C36_ReadOnlyOpsKeepStore ==
    (last.op \in ReadOnlyOps) =>
        /\ fs = last.pre
        /\ (last.op = "load" /\ last.status = "ok") =>
              /\ Len(LogOf(last.ret)) = Len(LogOf(DocBefore)) + 1
              /\ SubSeq(LogOf(last.ret), 1, Len(LogOf(DocBefore))) = LogOf(DocBefore)
              /\ LogOf(DocAfter) = LogOf(DocBefore)

\* suggest-profile answered the collaborator's text for a stored project with content
C36_Witness ==
    /\ last.op = "suggest-profile" /\ last.status = "ok" /\ ExistedBefore
    /\ last.textCalls = 1 /\ last.ret = last.groq
    /\ Truthy(DocBefore.dict["concept"].dict["seed_idea"])

\* an advisory operation failed on the collaborator's answer
C36_WitnessFailed ==
    /\ last.op \in {"draft-scene", "refine-text"} /\ last.status = "GenerationFailed"
    /\ ExistedBefore

\* a load returned a document with one log entry more than the stored one
C36_WitnessLoad ==
    /\ last.op = "load" /\ last.status = "ok"
    /\ Len(LogOf(last.ret)) = Len(LogOf(DocAfter)) + 1

\* C37: analyze-issues passes to the collaborator exactly the last 2000 characters
\* of full_script_content, the whole script when it is shorter, and on success
\* changes script.analysis_md only (beside last_saved and log).
C37_AnalyzePassesLastExcerpt ==
    (last.op = "analyze-issues" /\ last.textCalls = 1) =>
        LET script == DocBefore.dict["script"].dict["full_script_content"].str
            n == IF Len(script) <= ExcerptLen THEN Len(script) ELSE ExcerptLen
            expected == [i \in 1..n |-> script[Len(script) - n + i]]
            before == DocBefore.dict
            after == DocAfter.dict
        IN  /\ last.asked = [excerpt |-> S(expected)]
            /\ last.status = "ok" =>
                  /\ \A k \in DOMAIN before \ {"script", "last_saved", "log"} : after[k] = before[k]
                  /\ DOMAIN after = DOMAIN before
                  /\ after["script"] = D(Put(before["script"].dict, "analysis_md", last.groq))

\* a script of 2001 characters: the first one is left out of the excerpt
C37_Witness ==
    /\ last.op = "analyze-issues" /\ last.status = "ok" /\ last.textCalls = 1
    /\ DocBefore.dict["script"].dict["full_script_content"] = ScriptOf(2, ExcerptLen + 1)
    /\ last.asked.excerpt = ScriptOf(1, ExcerptLen)
    /\ DocAfter.dict["script"].dict["analysis_md"] = last.groq

\* a script of 50 characters is passed whole
C37_WitnessShort ==
    /\ last.op = "analyze-issues" /\ last.status = "ok"
    /\ last.asked.excerpt = Text(MinScriptLen, "x")


(***************************************************************************)
(* The client's temporary outputs (SpecTransient).  mem is the mirror,     *)
(* prev the three temp_ entries of the session state.                      *)
(***************************************************************************)
\* the entries as the script initialises them
NoTransients ==
    [temp_drafted_scene |-> S(<<>>), temp_refined_text |-> S(<<>>),
     temp_profile_suggestions |-> S(<<>>)]

\* a variant of the load and create handlers that leaves the entries alone
ClearedOnSuccess_kept(r, temps) == temps

\* load_project_api and create_project_api empty the three entries in the branch
\* that takes the answer as the new mirror
ClearedOnSuccess(r, temps) == IF r.status = "ok" THEN NoTransients ELSE temps

\* btn_save_char_ui empties the profile suggestions when the answer is no error
SuggestionsCleared(r, temps) ==
    IF r.status = "ok" THEN [temps EXCEPT !.temp_profile_suggestions = S(<<>>)] ELSE temps

\* the advisory handlers: response_data.get("text", "") goes to one entry, the
\* mirror is not touched
Advised(o, m) ==
    LET response_data == call_api(o, D([text |-> o.ret])) IN Patched(o, response_data, m, m)

Kept(r, temps, key) ==
    IF r.status = "ok" THEN [temps EXCEPT ![key] = Get(r.resp.dict, "text", S(<<>>))] ELSE temps

\* btn_suggest_profile_ui
btn_suggest_profile(fsys, t, m, role_val, groq) ==
    Advised(ep_suggest_character_profile(fsys, t, MirrorName(m), [role |-> role_val], groq), m)

\* btn_draft_scene_ui
btn_draft_scene(fsys, t, m, draft_request_data, groq) ==
    Advised(ep_draft_scene(fsys, t, MirrorName(m), draft_request_data, groq), m)

\* btn_refine_ui
btn_refine(fsys, t, m, refine_request_data, groq) ==
    Advised(ep_refine_text_snippet(fsys, t, MirrorName(m), refine_request_data, groq), m)

\* save_project_api: state_to_save is the project_state entry of the session
state_to_save(m, temps) == m

TransientIdle ==
    [op |-> "none", status |-> "none", http |-> 0, pre |-> Null, temps |-> NoTransients,
     sent |-> Null, groq |-> Null, n |-> 0]

TransientInit ==
    /\ fs = <<>>
    /\ now = 1
    /\ mem = UIState
    /\ last = TransientIdle
    /\ prev = NoTransients

\* one button pressed: r is what its handler answers, temps the entries afterwards
Clicked(op, r, temps, sent, groq) ==
    /\ last.n < MaxClientOps
    /\ fs' = r.fs
    /\ now' = r.now
    /\ mem' = r.mirror
    /\ prev' = temps
    /\ last' = [op |-> op, status |-> r.status, http |-> r.http, pre |-> mem, temps |-> prev,
                sent |-> sent, groq |-> groq, n |-> last.n + 1]

ClickLoad == \E name \in ProjectNames :
    LET loaded(r) == Clicked("load", r, ClearedOnSuccess(r, prev), Null, Null) IN
    /\ \E i \in 1..Len(get_project_list(TRUE, fs)) : get_project_list(TRUE, fs)[i] = name
    /\ loaded(load_project_api(fs, now, mem, name))

ClickCreate == \E name \in ProjectNames :
    LET created(r) == Clicked("create", r, ClearedOnSuccess(r, prev), Null, Null) IN
    created(create_project_api(fs, now, mem, name))

ClickSave ==
    LET saved(r) == Clicked("save", r, prev, state_to_save(mem, prev), Null) IN
    /\ ProjectOpen(mem)
    /\ saved(save_project_api(fs, now, state_to_save(mem, prev)))

ClickSaveCharacter == \E c \in CharNames, update \in CharacterUpdates :
    LET saved(r) == Clicked("save-character", r, SuggestionsCleared(r, prev), Null, Null) IN
    /\ ProjectOpen(mem)
    /\ saved(btn_save_char(fs, now, mem, c, update))

ClickSuggestProfile == \E request \in ProfileRequests, groq \in GroqResults :
    LET advised(r) ==
            Clicked("suggest-profile", r, Kept(r, prev, "temp_profile_suggestions"), Null, groq)
    IN
    /\ ProjectOpen(mem)
    /\ advised(btn_suggest_profile(fs, now, mem, request.role, groq))

ClickDraftScene == \E request \in DraftRequests, groq \in GroqResults :
    LET advised(r) == Clicked("draft-scene", r, Kept(r, prev, "temp_drafted_scene"), Null, groq)
    IN
    /\ ProjectOpen(mem)
    /\ advised(btn_draft_scene(fs, now, mem, request, groq))

ClickRefineText == \E request \in RefineRequests, groq \in GroqResults :
    LET advised(r) == Clicked("refine-text", r, Kept(r, prev, "temp_refined_text"), Null, groq)
    IN
    /\ ProjectOpen(mem)
    /\ advised(btn_refine(fs, now, mem, request, groq))

TransientNext ==
    \/ ClickLoad
    \/ ClickCreate
    \/ ClickSave
    \/ ClickSaveCharacter
    \/ ClickSuggestProfile
    \/ ClickDraftScene
    \/ ClickRefineText

SpecTransient == TransientInit /\ [][TransientNext]_vars

AdvisoryButtons == {"suggest-profile", "draft-scene", "refine-text"}

\* C39: after a successful load or create the profile suggestions, the drafted
\* scene and the refined text of the client are empty; the advisory buttons leave
\* the mirror alone and the document sent by a save holds none of the three.
C39_TransientsClearedAndNeverSent ==
    /\ (last.op \in {"load", "create"} /\ last.status = "ok") => prev = NoTransients
    /\ last.op \in AdvisoryButtons => mem = last.pre
    /\ last.op = "save" =>
          /\ last.sent = last.pre
          /\ \A key \in DOMAIN NoTransients :
                /\ key \notin DOMAIN last.sent.dict
                /\ \A k \in ContentSubtrees \cap DOMAIN last.sent.dict :
                       key \notin DOMAIN last.sent.dict[k].dict

\* a project was loaded while a drafted scene and a refined text were on display
C39_Witness ==
    /\ last.op = "load" /\ last.status = "ok"
    /\ Truthy(last.temps.temp_drafted_scene) /\ Truthy(last.temps.temp_refined_text)
    /\ prev = NoTransients

\* a save was pressed while profile suggestions were on display
C39_WitnessSave ==
    /\ last.op = "save" /\ Truthy(prev.temp_profile_suggestions)
    /\ last.sent = last.pre


(***************************************************************************)
(* Requests in flight in one server process (SpecLoop).  mem holds the     *)
(* tasks of the event loop, prev the task that holds the loop, last the    *)
(* writes made so far.  Every endpoint is an async def, run on the loop.   *)
(***************************************************************************)
MaxTasks == 2

\* a variant of the handlers with an await between the load and the save
Yields_after_load(pc) == pc = "loaded"

\* the places where a handler gives the loop back before it returns: the endpoint
\* bodies hold no await
Yields(pc) == FALSE

\* what the handler assigns between its load and its save
Mutated(task, state) ==
    IF task.op = "update-full-script"
    THEN SetField(state, "script", "full_script_content", task.arg)
    ELSE SetField(SetField(state, "concept", "seed_idea", task.arg),
                  "concept", "generated_concepts_md", task.groq)

\* the requests: update-full-script with a content, generate-concepts with a seed
\* idea and the collaborator's answer
Requests ==
    {[op |-> "update-full-script", name |-> name, arg |-> content, groq |-> Null] :
        name \in ProjectNames, content \in ScriptContents}
        \cup {[op |-> "generate-concepts", name |-> name, arg |-> seed, groq |-> groq] :
                 name \in ProjectNames, seed \in SeedIdeas, groq \in GroqResults}

NoWrites == [n |-> 0, written |-> Null, order |-> <<>>]

\* the storage holds the projects, created before the requests arrive
LoopInit ==
    /\ \E name \in ProjectNames :
           /\ fs = ep_create_project(<<>>, 1, name).fs
           /\ now = ep_create_project(<<>>, 1, name).now
    /\ mem = <<>>
    /\ last = NoWrites
    /\ prev = [running |-> 0]

\* a request arrives and its task is scheduled
Arrive == \E request \in Requests :
    /\ Len(mem) < MaxTasks
    /\ mem' = Append(mem, [op |-> request.op, name |-> request.name, arg |-> request.arg,
                           groq |-> request.groq, pc |-> "queued", state |-> Null,
                           status |-> "none"])
    /\ UNCHANGED <<fs, now, last, prev>>

\* the loop may run task i: it holds the loop, or the loop is free
MayRun(i) == prev.running = i \/ prev.running = 0

\* the loop after task i stepped to pc
LoopAfter(i, pc) == [running |-> IF pc = "done" \/ Yields(pc) THEN 0 ELSE i]

\* the handler up to the end of load_project_state_safe
HandlerLoads == \E i \in 1..Len(mem) :
    LET ld == load_project_state_safe(fs, mem[i].name)
        pc == IF ld.status = "ok" THEN "loaded" ELSE "done"
    IN
    /\ mem[i].pc = "queued" /\ MayRun(i)
    /\ mem' = [mem EXCEPT ![i].pc = pc, ![i].state = ld.state, ![i].status = ld.status]
    /\ prev' = LoopAfter(i, pc)
    /\ UNCHANGED <<fs, now, last>>

\* the rest of the handler: the collaborator's answer is tested, the loaded state
\* is mutated and save_project_state_safe writes it
HandlerSaves == \E i \in 1..Len(mem) :
    LET failed == mem[i].op = "generate-concepts" /\ Contains(mem[i].groq.str, "Error:")
        sv == save_project_state_safe(fs, now, Mutated(mem[i], mem[i].state))
    IN
    /\ mem[i].pc = "loaded" /\ MayRun(i)
    /\ prev' = LoopAfter(i, "done")
    /\ IF failed
       THEN /\ mem' = [mem EXCEPT ![i].pc = "done", ![i].status = "GenerationFailed"]
            /\ UNCHANGED <<fs, now, last>>
       ELSE /\ mem' = [mem EXCEPT ![i].pc = "done", ![i].status = sv.status]
            /\ fs' = sv.fs
            /\ now' = sv.now
            /\ last' = [n |-> last.n + 1, written |-> sv.state, order |-> Append(last.order, i)]

LoopNext == Arrive \/ HandlerLoads \/ HandlerSaves

SpecLoop == LoopInit /\ [][LoopNext]_vars

\* the tasks that saved, of one operation, in the order of their saves
SavedOf(op) == SelectSeq(last.order, LAMBDA i : mem[i].op = op)

\* C40: the load, mutation and save of one request are not interleaved with those
\* of another, so the stored document holds the update of every request that
\* saved (of two of the same operation, the later one); a save writes the whole
\* document.
C40_NoLostUpdate ==
    /\ \A i \in 1..Len(mem), j \in 1..Len(mem) :
           (i # j /\ mem[i].pc = "loaded") => mem[j].pc # "loaded"
    /\ \A op \in {"update-full-script", "generate-concepts"} :
           SavedOf(op) # <<>> =>
               LET task == mem[SavedOf(op)[Len(SavedOf(op))]]
                   doc == ReadFile(fs, StatePath(task.name))
               IN  IF op = "update-full-script"
                   THEN doc.dict["script"].dict["full_script_content"] = task.arg
                   ELSE /\ doc.dict["concept"].dict["seed_idea"] = task.arg
                        /\ doc.dict["concept"].dict["generated_concepts_md"] = task.groq
    /\ last.n > 0 =>
           ReadFile(fs, StatePath(mem[last.order[last.n]].name)) = last.written

\* a request waited in the queue while the handler of another one, past its load,
\* held the loop
C40_WitnessWaiting ==
    /\ Len(mem) = MaxTasks
    /\ mem[1].pc = "queued" /\ mem[2].pc = "loaded" /\ prev.running = 2

\* two requests of different operations on the same project both saved: the
\* stored document holds the script of the one and the concepts of the other
C40_Witness ==
    /\ Len(mem) = MaxTasks /\ last.n = MaxTasks
    /\ mem[1].name = mem[2].name
    /\ mem[1].op # mem[2].op
    /\ \E name \in ProjectNames :
           LET doc == ReadFile(fs, StatePath(name)) IN
           /\ doc.dict["script"].dict["full_script_content"] = Text(MinScriptLen, "x")
           /\ Truthy(doc.dict["concept"].dict["generated_concepts_md"])

====
